---- MODULE Spec2Model ----
(***************************************************************************)
(* Model of the virtual-pet simulation core:                               *)
(*   - DogState / DogStateManager          (src/dog_state.py)              *)
(*   - the behaviour tools and their queue (src/dog_behaviors.py)          *)
(*   - the executor and orchestrator loops (src/dog_agent_gradio.py)       *)
(*                                                                         *)
(* Units.  `now' counts real seconds (time.time()).  Virtual time is held  *)
(* in units of 1/TimeUnit virtual minute and attribute values in units of  *)
(* 1/Scale point, so that the float arithmetic of the source (rates 2.0,   *)
(* 1.5, 1.0, 0.5 per virtual minute, time scales 30 and 60) is exact on    *)
(* integers; the progress interpolation truncates to that resolution.      *)
(* Python's None is the empty tuple, a present value v is <<v>>.           *)
(***************************************************************************)
EXTENDS Integers, Sequences, FiniteSets, TLC

VARIABLES
    now,                      \* time.time(), real seconds
    st,                       \* DogStateManager.current_state
    db,                       \* the dog_state table row with id = 1
    time_scale,               \* DogStateManager.time_scale
    last,                     \* the last direct state-manager call and what it returned
    calls,                    \* number of direct state-manager calls made (SpecSM)
    nStarted,                 \* behaviours start_behavior accepted
    nCompleted,               \* executions of _complete_behavior
    nInterrupted,             \* behaviours interrupt_behavior cleared
    nCompletedAtCheck,        \* nCompleted at the last check_and_clear_completion_flag
    behavior_queue,           \* DogAgentGradio.behavior_queue, oldest task first
    unfinished_tasks,         \* Queue.unfinished_tasks: put() minus task_done()
    autonomous_task,          \* DogAgentGradio.autonomous_task
    loops,                    \* background threads started, each running both loops
    exec_pc,                  \* per loop: where behavior_queue_executor stands
    orch_pc,                  \* per loop: where autonomous_behavior_loop stands
    ui_pc,                    \* where handle_user_input stands
    is_executing_behavior,    \* DogAgentGradio.is_executing_behavior
    current_executing_behavior,
    running,                  \* DogAgentGradio.running
    mode,                     \* DogAgentGradio.mode
    last_interaction_time,    \* DogAgentGradio.last_interaction_time
    enqueued,                 \* number of tasks put on the queue so far
    cycles,                   \* number of decision cycles started so far
    exec_log,                 \* ids of the tasks whose action was invoked, in order
    locals,                   \* what each thread holds inside a state-manager call
    task_origin,              \* per task id: the kind of cycle whose agent enqueued it
    cycle_starts              \* the times at which autonomous cycles started, in order
                              \* (both None where the history is not recorded)

counters == <<nStarted, nCompleted, nInterrupted, nCompletedAtCheck>>

smvars == <<now, st, db, time_scale, last, calls, counters>>

agentvars == <<behavior_queue, unfinished_tasks, autonomous_task, loops, exec_pc,
               orch_pc, ui_pc, is_executing_behavior, current_executing_behavior,
               running, mode, last_interaction_time, enqueued, cycles, exec_log>>

\* what has happened: read by the properties, never by the program, and
\* recorded only in the specifications whose properties read it
history == <<task_origin, cycle_starts>>

sysvars == <<agentvars, locals, history>>

vars == <<smvars, sysvars>>

----------------------------------------------------------------------------
(* Bounds of the model *)
MaxTime == 4          \* the clock stops advancing here
MaxCalls == 4         \* direct state-manager calls in one behaviour of SpecSM
MaxTasks == 2         \* tasks put on the queue in one behaviour
MaxLoops == 2         \* background threads the model can hold
MaxCycles == 2        \* decision cycles (autonomous or interactive) in one behaviour

(* Representation of the floats *)
Scale == 4            \* attribute units per point
TimeUnit == 2         \* virtual-time units per virtual minute

None == <<>>
Some(v) == <<v>>
Val(o) == o[1]

Max(a, b) == IF a >= b THEN a ELSE b
Min(a, b) == IF a <= b THEN a ELSE b
Pt(p) == p * Scale                    \* p points
Minutes(m) == m * TimeUnit            \* m virtual minutes

Attributes == {"hunger", "thirst", "fatigue", "boredom", "happiness"}
Kinds == {"sleeping", "eating", "drinking"}

\* elapsed_minutes = (elapsed_seconds * self.time_scale) / 60.0
elapsed_minutes(seconds, ts) == (seconds * ts * TimeUnit) \div 60

\* elapsed_minutes * rate, for a rate of num/den points per virtual minute
Rate(em, num, den) == (em * num * Scale) \div (den * TimeUnit)

----------------------------------------------------------------------------
(* DogState *)

\* DogState(): the dataclass defaults; last_update_time is set by __post_init__
DogState(t) ==
    [hunger |-> Pt(20), thirst |-> Pt(20), fatigue |-> Pt(20),
     boredom |-> Pt(30), happiness |-> Pt(70),
     last_update_time |-> t,
     current_behavior |-> None, behavior_start_time |-> None,
     behavior_duration |-> None, behavior_description |-> None,
     \* attributes the dataclass does not declare; absent until first set
     eating_initial_hunger |-> None,
     drinking_initial_thirst |-> None,
     behavior_just_completed |-> None]

DataclassFields ==
    {"hunger", "thirst", "fatigue", "boredom", "happiness", "last_update_time",
     "current_behavior", "behavior_start_time", "behavior_duration",
     "behavior_description"}

\* asdict(self): the declared fields only
to_dict(s) == [f \in DataclassFields |-> s[f]]

\* cls(**data): the declared fields from the dict, no undeclared attribute
from_dict(data) ==
    [f \in DOMAIN DogState(0) |->
        IF f \in DOMAIN data THEN data[f] ELSE None]

Clamp(v) == Max(0, Min(Pt(100), v))

clamp_values_unbounded(s) ==
    [s EXCEPT !.hunger = Max(0, @), !.thirst = Max(0, @), !.fatigue = Max(0, @),
              !.boredom = Max(0, @), !.happiness = Max(0, @)]

clamp_values(s) ==
    [s EXCEPT !.hunger = Clamp(@), !.thirst = Clamp(@), !.fatigue = Clamp(@),
              !.boredom = Clamp(@), !.happiness = Clamp(@)]

----------------------------------------------------------------------------
(* DogStateManager.  Every operation is an operator from the state s, the  *)
(* table row d, the time t and the time scale ts to the new state and row. *)

\* INSERT OR REPLACE INTO dog_state (id, state_data, updated_at) VALUES (1, ?, ?)
save_state(s, t) == [state_data |-> Some(to_dict(s)), updated_at |-> Some(t)]

NoRow == [state_data |-> None, updated_at |-> None]

\* _load_or_create_state
load_or_create_state(d, t) ==
    IF d.state_data # None THEN from_dict(Val(d.state_data)) ELSE DogState(t)

is_busy_through_duration(s, t, ts) ==
    IF s.current_behavior = None
    THEN FALSE
    ELSE elapsed_minutes(t - Val(s.behavior_start_time), ts) <= Val(s.behavior_duration)

is_busy(s, t, ts) ==
    IF s.current_behavior = None
    THEN FALSE
    ELSE elapsed_minutes(t - Val(s.behavior_start_time), ts) < Val(s.behavior_duration)

HappinessBonus(kind) ==
    CASE kind = "sleeping" -> Pt(10)
      [] kind = "eating"   -> Pt(15)
      [] kind = "drinking" -> Pt(10)
      [] OTHER             -> 0

CompletionAttribute(kind) ==
    CASE kind = "sleeping" -> "fatigue"
      [] kind = "eating"   -> "hunger"
      [] kind = "drinking" -> "thirst"

\* _complete_behavior: final effects, slot cleared, flag set, then save_state()
complete_behavior(s, t) ==
    LET behavior == Val(s.current_behavior)
        s1 == IF behavior \in Kinds
              THEN [s EXCEPT ![CompletionAttribute(behavior)] = 0,
                             !.happiness = @ + HappinessBonus(behavior)]
              ELSE s
        s2 == [s1 EXCEPT !.current_behavior = None,
                         !.behavior_start_time = None,
                         !.behavior_duration = None,
                         !.behavior_description = None,
                         !.behavior_just_completed = Some(TRUE)]
    IN  [st |-> s2, db |-> save_state(s2, t), completed |-> TRUE]

\* _update_behavior_progress scaling the current fatigue and boredom of a
\* sleep instead of overwriting them from 80 and 50
update_behavior_progress_from_current(s, d, t, ts) ==
    IF s.current_behavior = None
    THEN [st |-> s, db |-> d, completed |-> FALSE]
    ELSE
    LET behavior == Val(s.current_behavior)
        be == elapsed_minutes(t - Val(s.behavior_start_time), ts)
        dur == Val(s.behavior_duration)
    IN  IF be >= dur
        THEN complete_behavior(s, t)
        ELSE
        \* progress = be / dur; x * (1 - progress) = x * (dur - be) / dur
        LET initial_hunger == IF s.eating_initial_hunger = None
                              THEN Pt(80) ELSE Val(s.eating_initial_hunger)
            initial_thirst == IF s.drinking_initial_thirst = None
                              THEN Pt(80) ELSE Val(s.drinking_initial_thirst)
            s1 == CASE behavior = "sleeping" ->
                         [s EXCEPT !.fatigue = Max(0, (@ * (dur - be)) \div dur),
                                   !.boredom = Max(0, (@ * (2 * dur - be)) \div (2 * dur))]
                    [] behavior = "eating" ->
                         [s EXCEPT !.hunger = Max(0, (initial_hunger * (dur - be)) \div dur)]
                    [] behavior = "drinking" ->
                         [s EXCEPT !.thirst = Max(0, (initial_thirst * (dur - be)) \div dur)]
                    [] OTHER -> s
        IN  [st |-> s1, db |-> d, completed |-> FALSE]

\* _update_behavior_progress
update_behavior_progress(s, d, t, ts) ==
    IF s.current_behavior = None
    THEN [st |-> s, db |-> d, completed |-> FALSE]
    ELSE
    LET behavior == Val(s.current_behavior)
        be == elapsed_minutes(t - Val(s.behavior_start_time), ts)
        dur == Val(s.behavior_duration)
    IN  IF be >= dur
        THEN complete_behavior(s, t)
        ELSE
        \* progress = be / dur; x * (1 - progress) = x * (dur - be) / dur
        LET initial_hunger == IF s.eating_initial_hunger = None
                              THEN Pt(80) ELSE Val(s.eating_initial_hunger)
            initial_thirst == IF s.drinking_initial_thirst = None
                              THEN Pt(80) ELSE Val(s.drinking_initial_thirst)
            s1 == CASE behavior = "sleeping" ->
                         [s EXCEPT !.fatigue = Max(0, (Pt(80) * (dur - be)) \div dur),
                                   !.boredom = Max(0, (Pt(50) * (2 * dur - be)) \div (2 * dur))]
                    [] behavior = "eating" ->
                         [s EXCEPT !.hunger = Max(0, (initial_hunger * (dur - be)) \div dur)]
                    [] behavior = "drinking" ->
                         [s EXCEPT !.thirst = Max(0, (initial_thirst * (dur - be)) \div dur)]
                    [] OTHER -> s
        IN  [st |-> s1, db |-> d, completed |-> FALSE]

\* update_state_by_time without the test for sleeping before the decay
update_state_by_time_decaying_asleep(s, d, t, ts) ==
    LET em == elapsed_minutes(t - s.last_update_time, ts)
        p  == IF s.current_behavior # None
              THEN update_behavior_progress(s, d, t, ts)
              ELSE [st |-> s, db |-> d, completed |-> FALSE]
        s1 == p.st
        s2 == [s1 EXCEPT !.hunger  = @ + Rate(em, 2, 1),
                         !.thirst  = @ + Rate(em, 3, 2),
                         !.fatigue = @ + Rate(em, 1, 1),
                         !.boredom = @ + Rate(em, 3, 2)]
        s3 == IF s2.hunger > Pt(70) \/ s2.thirst > Pt(70)
              THEN [s2 EXCEPT !.happiness = @ - Rate(em, 1, 2)]
              ELSE s2
        s4 == clamp_values([s3 EXCEPT !.last_update_time = t])
    IN  [st |-> s4, db |-> p.db, completed |-> p.completed]

\* update_state_by_time
update_state_by_time(s, d, t, ts) ==
    LET em == elapsed_minutes(t - s.last_update_time, ts)
        p  == IF s.current_behavior # None
              THEN update_behavior_progress(s, d, t, ts)
              ELSE [st |-> s, db |-> d, completed |-> FALSE]
        s1 == p.st
        s2 == IF s1.current_behavior # Some("sleeping")
              THEN [s1 EXCEPT !.hunger  = @ + Rate(em, 2, 1),
                              !.thirst  = @ + Rate(em, 3, 2),
                              !.fatigue = @ + Rate(em, 1, 1),
                              !.boredom = @ + Rate(em, 3, 2)]
              ELSE s1
        s3 == IF s2.hunger > Pt(70) \/ s2.thirst > Pt(70)
              THEN [s2 EXCEPT !.happiness = @ - Rate(em, 1, 2)]
              ELSE s2
        s4 == clamp_values([s3 EXCEPT !.last_update_time = t])
    IN  [st |-> s4, db |-> p.db, completed |-> p.completed]

\* check_and_clear_completion_flag
check_and_clear_keeps_flag(s) ==
    [st |-> s, ret |-> (s.behavior_just_completed = Some(TRUE))]

check_and_clear_completion_flag(s) ==
    IF s.behavior_just_completed = Some(TRUE)
    THEN [st |-> [s EXCEPT !.behavior_just_completed = Some(FALSE)], ret |-> TRUE]
    ELSE [st |-> s, ret |-> FALSE]

\* start_behavior
start_behavior(s, d, t, ts, behavior_type, duration_minutes, description) ==
    IF is_busy(s, t, ts)
    THEN [st |-> s, db |-> d, ok |-> FALSE]
    ELSE
    LET s1 == [s EXCEPT !.current_behavior = Some(behavior_type),
                        !.behavior_start_time = Some(t),
                        !.behavior_duration = Some(duration_minutes),
                        !.behavior_description = Some(description)]
        s2 == CASE behavior_type = "eating" ->
                      [s1 EXCEPT !.eating_initial_hunger = Some(s1.hunger)]
                [] behavior_type = "drinking" ->
                      [s1 EXCEPT !.drinking_initial_thirst = Some(s1.thirst)]
                [] OTHER -> s1
    IN  [st |-> s2, db |-> save_state(s2, t), ok |-> TRUE]

\* interrupt_behavior
interrupt_behavior_completing(s, d, t) ==
    IF s.current_behavior = None
    THEN [st |-> s, db |-> d, ok |-> FALSE]
    ELSE [st |-> complete_behavior(s, t).st,
          db |-> complete_behavior(s, t).db, ok |-> TRUE]

interrupt_behavior_always_saving(s, d, t) ==
    LET s1 == [s EXCEPT !.current_behavior = None,
                        !.behavior_start_time = None,
                        !.behavior_duration = None,
                        !.behavior_description = None]
    IN  [st |-> s1, db |-> save_state(s1, t), ok |-> (s.current_behavior # None)]

\* interrupt_behavior without line 230: the description stays behind
interrupt_behavior_keeping_description(s, d, t) ==
    IF s.current_behavior = None
    THEN [st |-> s, db |-> d, ok |-> FALSE]
    ELSE
    LET s1 == [s EXCEPT !.current_behavior = None,
                        !.behavior_start_time = None,
                        !.behavior_duration = None]
    IN  [st |-> s1, db |-> save_state(s1, t), ok |-> TRUE]

\* an interrupt that marks the behaviour as just completed
interrupt_behavior_flagging(s, d, t) ==
    IF s.current_behavior = None
    THEN [st |-> s, db |-> d, ok |-> FALSE]
    ELSE
    LET s1 == [s EXCEPT !.current_behavior = None,
                        !.behavior_start_time = None,
                        !.behavior_duration = None,
                        !.behavior_description = None,
                        !.behavior_just_completed = Some(TRUE)]
    IN  [st |-> s1, db |-> save_state(s1, t), ok |-> TRUE]

interrupt_behavior(s, d, t) ==
    IF s.current_behavior = None
    THEN [st |-> s, db |-> d, ok |-> FALSE]
    ELSE
    LET s1 == [s EXCEPT !.current_behavior = None,
                        !.behavior_start_time = None,
                        !.behavior_duration = None,
                        !.behavior_description = None]
    IN  [st |-> s1, db |-> save_state(s1, t), ok |-> TRUE]

\* modify_state without its clamp_values() call
modify_state_unclamped(s, t, kw) ==
    LET s1 == [f \in DOMAIN s |-> IF f \in DOMAIN kw THEN s[f] + kw[f] ELSE s[f]]
    IN  [st |-> s1, db |-> save_state(s1, t)]

\* modify_state(**kwargs): kw maps field names to deltas
modify_state(s, t, kw) ==
    LET s1 == [f \in DOMAIN s |-> IF f \in DOMAIN kw THEN s[f] + kw[f] ELSE s[f]]
        s2 == clamp_values(s1)
    IN  [st |-> s2, db |-> save_state(s2, t)]

\* get_state_description without its save_state()
get_state_description_unsaved(s, d, t, ts) == update_state_by_time(s, d, t, ts)

\* get_state_description: update_state_by_time(), then save_state()
get_state_description(s, d, t, ts) ==
    LET u == update_state_by_time(s, d, t, ts)
    IN  [st |-> u.st, db |-> save_state(u.st, t), completed |-> u.completed]

\* get_state_description on a closed connection: the state in memory when
\* the first save_state() raises, inside _complete_behavior if the behaviour
\* is over (before the decay and the clamp), else after update_state_by_time
get_state_description_closed(s, t, ts) ==
    LET p == update_behavior_progress(s, NoRow, t, ts)
    IN  IF p.completed
        THEN [st |-> p.st, completed |-> TRUE]
        ELSE [st |-> update_state_by_time(s, NoRow, t, ts).st, completed |-> FALSE]

----------------------------------------------------------------------------
(* Inputs *)

TimeScales == {30, 60}                       \* main(): 30.0; the "60x" preset
Durations == {Minutes(2)}      \* duration_minutes of a long-term behaviour

\* description= of the three long-term tools (glosses of the Chinese strings)
Description(kind) ==
    CASE kind = "sleeping" -> "sleep"
      [] kind = "eating"   -> "eat"
      [] kind = "drinking" -> "drink"

\* kwargs of modify_state: a catalogue entry and two adversarial ones
ModifyInputs ==
    { [happiness |-> Pt(12), boredom |-> -Pt(15), fatigue |-> Pt(10)], \* fetch_object
      [hunger |-> Pt(1000), thirst |-> Pt(1000), happiness |-> -Pt(1000)],
      [fatigue |-> -Pt(1000), boredom |-> Pt(1000), happiness |-> Pt(1000)] }

\* Rows the table can hold when the process starts: none (first run), a row
\* written by modify_state, and a row written by _complete_behavior, which
\* saves after adding the bonus and before any clamp.
LoadedRows ==
    { NoRow,
      save_state([DogState(0) EXCEPT !.hunger = Pt(80), !.thirst = Pt(75),
                                     !.fatigue = Pt(90), !.boredom = Pt(60),
                                     !.happiness = Pt(95)], 0),
      save_state([DogState(0) EXCEPT !.hunger = 0, !.thirst = Pt(30),
                                     !.fatigue = Pt(40), !.boredom = Pt(50),
                                     !.happiness = Pt(110)], 0) }

----------------------------------------------------------------------------
(* The record of the last state-manager call *)

NoCall == [op |-> "none", ok |-> FALSE, completed |-> FALSE]

\* op was called and returned ok; completed: it ran _complete_behavior
Called(op, ok, completed) ==
    [op |-> op, ok |-> ok, completed |-> completed]

\* this step is a direct call of op (SpecSM counts the calls)
IsCall(op) == calls' # calls /\ last'.op = op

----------------------------------------------------------------------------
(* DogStateManager.__init__ *)

InitSM ==
    /\ now = 0
    /\ db \in LoadedRows
    /\ st = load_or_create_state(db, now)
    /\ time_scale \in TimeScales
    /\ last = NoCall
    /\ calls = 0
    /\ nStarted = 0 /\ nCompleted = 0 /\ nInterrupted = 0
    /\ nCompletedAtCheck = 0

(* time passes *)
Advance(seconds, max) ==
    /\ now + seconds <= max
    /\ now' = now + seconds
    /\ UNCHANGED <<st, db, time_scale, last, calls, counters, sysvars>>

(* The state-manager operations as steps of the model: the call's effect on *)
(* the state, the table and the counts of started, completed and interrupted *)
(* behaviours.                                                               *)

DoModifyState(kw) ==
    LET r == modify_state(st, now, kw)
    IN  /\ st' = r.st /\ db' = r.db
        /\ UNCHANGED counters

DoUpdateStateByTime ==
    LET r == update_state_by_time(st, db, now, time_scale)
    IN  /\ st' = r.st /\ db' = r.db
        /\ nCompleted' = nCompleted + (IF r.completed THEN 1 ELSE 0)
        /\ UNCHANGED <<nStarted, nInterrupted, nCompletedAtCheck>>

DoGetStateDescription ==
    LET r == get_state_description(st, db, now, time_scale)
    IN  /\ st' = r.st /\ db' = r.db
        /\ nCompleted' = nCompleted + (IF r.completed THEN 1 ELSE 0)
        /\ UNCHANGED <<nStarted, nInterrupted, nCompletedAtCheck>>

DoStartBehavior(kind, duration) ==
    LET r == start_behavior(st, db, now, time_scale, kind, duration, Description(kind))
    IN  /\ st' = r.st /\ db' = r.db
        /\ nStarted' = nStarted + (IF r.ok THEN 1 ELSE 0)
        /\ UNCHANGED <<nCompleted, nInterrupted, nCompletedAtCheck>>

DoInterruptBehavior ==
    LET r == interrupt_behavior(st, db, now)
    IN  /\ st' = r.st /\ db' = r.db
        /\ nInterrupted' = nInterrupted + (IF r.ok THEN 1 ELSE 0)
        /\ UNCHANGED <<nStarted, nCompleted, nCompletedAtCheck>>

DoCheckAndClear_without_clearing ==
    /\ st' = st /\ db' = db
    /\ nCompletedAtCheck' = nCompleted
    /\ UNCHANGED <<nStarted, nCompleted, nInterrupted>>

DoCheckAndClear ==
    LET r == check_and_clear_completion_flag(st)
    IN  /\ st' = r.st /\ db' = db
        /\ nCompletedAtCheck' = nCompleted
        /\ UNCHANGED <<nStarted, nCompleted, nInterrupted>>

----------------------------------------------------------------------------
(* The behaviour tools and the task queue (src/dog_behaviors.py) *)

autonomous_interval == 15      \* seconds without interaction before a cycle

DurationSeconds == {120}       \* duration_seconds an agent passes to a long-term tool

\* real seconds the shortest long-term behaviour lasts at the fastest time
\* scale: the clock moves by single seconds for that long after each interval
FineSeconds ==
    LET shortest == CHOOSE d \in DurationSeconds : \A x \in DurationSeconds : d <= x
        fastest == CHOOSE ts \in TimeScales : \A x \in TimeScales : x <= ts
    IN  shortest \div fastest

\* the clock of the whole system stops advancing here
MaxClock == autonomous_interval + FineSeconds

\* no keyword arguments
NoKw == [a \in {} |-> 0]

\* The catalogue entries the model uses.  call is what the queued
\* execute_behavior does: modify_state(**kw) or start_behavior(kind, ...).
Tools ==
    { [name |-> "wag_tail", behavior_type |-> "instant", description |-> "wag tail",
       call |-> "modify_state", kw |-> [happiness |-> Pt(5)], kind |-> "none"],
      [name |-> "sleep", behavior_type |-> "long_term", description |-> Description("sleeping"),
       call |-> "start_behavior", kw |-> NoKw, kind |-> "sleeping"] }

\* BehaviorTask(...) as _queue_behavior and _queue_long_term_behavior build it;
\* duration = duration_seconds / 60
BehaviorTask(id, tool, duration_seconds) ==
    [id |-> id,
     behavior_type |-> tool.behavior_type,
     description |-> tool.description,
     estimated_duration |-> (duration_seconds * TimeUnit) \div 60,
     behavior_name |-> tool.name,
     call |-> tool.call, kw |-> tool.kw, kind |-> tool.kind]

\* behavior_queue.put(task) / behavior_queue.get()
QueuePutFront(q, task) == <<task>> \o q
QueuePut(q, task) == Append(q, task)
QueueGet(q) == Head(q)

\* a queueing tool is invoked by the agent: _queue_behavior or
\* _queue_long_term_behavior puts the task and returns at once
InvokeQueueingTool(tool, duration_seconds) ==
    /\ enqueued < MaxTasks
    /\ behavior_queue' = QueuePut(behavior_queue,
                                  BehaviorTask(enqueued + 1, tool, duration_seconds))
    /\ unfinished_tasks' = unfinished_tasks + 1
    /\ enqueued' = enqueued + 1
    /\ UNCHANGED <<st, db, counters>>

\* interrupt_current_behavior calls interrupt_behavior directly, unqueued
InvokeInterrupt ==
    /\ DoInterruptBehavior
    /\ UNCHANGED <<behavior_queue, unfinished_tasks, enqueued>>

\* task_origin once the step is taken by the agent of a cycle of that kind
Enqueuer(kind) ==
    IF task_origin # None /\ enqueued' # enqueued
    THEN Some(Append(Val(task_origin), kind))
    ELSE task_origin

InvokeTool ==
    \/ \E tool \in Tools, d \in DurationSeconds : InvokeQueueingTool(tool, d)
    \/ InvokeInterrupt

----------------------------------------------------------------------------
(* DogAgentGradio (src/dog_agent_gradio.py) *)

Loops == 1..MaxLoops

\* a thread that is inside no state-manager call
Idle == [pc |-> "idle", t |-> 0, em |-> 0, k |-> 0, tmp |-> 0, kw |-> <<>>]

\* ui: the UI handler thread, bg: the background thread; base: the state
\* before the first of two overlapping calls began
NoLocals == [ui |-> Idle, bg |-> Idle, base |-> None]

InitSys ==
    /\ behavior_queue = <<>>
    /\ unfinished_tasks = 0
    /\ autonomous_task = None
    /\ loops = 0
    /\ exec_pc = [e \in Loops |-> "poll"]
    /\ orch_pc = [e \in Loops |-> "sleep"]
    /\ ui_pc = "idle"
    /\ is_executing_behavior = FALSE
    /\ current_executing_behavior = None
    /\ running = TRUE
    /\ mode = "autonomous"
    /\ last_interaction_time = now
    /\ enqueued = 0
    /\ cycles = 0
    /\ exec_log = <<>>
    /\ locals = NoLocals

\* the history is not recorded / is recorded from the start
NoHistory == task_origin = None /\ cycle_starts = None
Recording == task_origin = Some(<<>>) /\ cycle_starts = Some(<<>>)

\* main(): a first run (no row yet), default_time_scale = 30.0
Init ==
    /\ InitSM
    /\ db = NoRow
    /\ time_scale = 30
    /\ InitSys
    /\ NoHistory

\* the same start, with the history recorded
InitRecorded ==
    /\ InitSM
    /\ db = NoRow
    /\ time_scale = 30
    /\ InitSys
    /\ Recording

\* start_autonomous_task: one background thread running both loops, once
start_autonomous_task_unguarded(task, n) == n + 1

start_autonomous_task(task, n) == IF task = None THEN n + 1 ELSE n

StartAutonomousTask ==
    /\ loops < MaxLoops
    /\ loops' = start_autonomous_task(autonomous_task, loops)
    /\ autonomous_task' = Some("thread")
    /\ UNCHANGED <<smvars, behavior_queue, unfinished_tasks, exec_pc, orch_pc, ui_pc,
                   is_executing_behavior, current_executing_behavior, running, mode,
                   last_interaction_time, enqueued, cycles, exec_log, locals, history>>

(* behavior_queue_executor.  exec_pc[e] is "poll" while the coroutine sleeps  *)
(* in the empty-queue branch, "run" while it holds the event loop between two *)
(* tasks, "wait" while it sleeps in the long-term wait, "stopped" after the   *)
(* loop has ended.                                                            *)

\* the end of one task: timer reset in interactive mode, markers cleared, task_done()
FinishTask(e) ==
    /\ last_interaction_time' = IF mode = "interactive" THEN now ELSE last_interaction_time
    /\ is_executing_behavior' = FALSE
    /\ current_executing_behavior' = None
    /\ unfinished_tasks' = unfinished_tasks - 1
    /\ exec_pc' = [exec_pc EXCEPT ![e] = "run"]

\* a wait that the end of the behaviour does not end
WaitContinues_until_stopped(s, t, ts, run) == run

\* while self.state_manager.is_busy() and self.running
WaitContinues(s, t, ts, run) == is_busy(s, t, ts) /\ run

\* the executor without the test of the action's result for the Busy prefix
ExecTask_waiting_when_rejected(e) ==
    /\ e <= loops /\ running
    /\ exec_pc[e] \in {"poll", "run"}
    /\ behavior_queue # <<>>
    /\ LET task == QueueGet(behavior_queue)
       IN  /\ behavior_queue' = Tail(behavior_queue)
           /\ exec_log' = Append(exec_log, task.id)
           /\ CASE task.call = "modify_state" -> DoModifyState(task.kw)
                [] task.call = "start_behavior" ->
                       DoStartBehavior(task.kind, task.estimated_duration)
                [] OTHER -> UNCHANGED <<st, db, counters>>
           /\ IF /\ task.behavior_type = "long_term"
                 /\ WaitContinues(st', now, time_scale, running)
              THEN /\ is_executing_behavior' = TRUE
                   /\ current_executing_behavior' = Some(task.description)
                   /\ exec_pc' = [exec_pc EXCEPT ![e] = "wait"]
                   /\ UNCHANGED <<unfinished_tasks, last_interaction_time>>
              ELSE FinishTask(e)
    /\ UNCHANGED <<now, time_scale, calls, last, autonomous_task, loops, locals, history, orch_pc, ui_pc,
                   running, mode, enqueued, cycles>>

\* one task is taken from the queue and its action is invoked
ExecTask(e) ==
    /\ e <= loops /\ running
    /\ exec_pc[e] \in {"poll", "run"}
    /\ behavior_queue # <<>>
    /\ LET task == QueueGet(behavior_queue)
       IN  /\ behavior_queue' = Tail(behavior_queue)
           /\ exec_log' = Append(exec_log, task.id)
           /\ CASE task.call = "modify_state" -> DoModifyState(task.kw)
                [] task.call = "start_behavior" ->
                       DoStartBehavior(task.kind, task.estimated_duration)
                [] OTHER -> UNCHANGED <<st, db, counters>>
           /\ IF /\ task.behavior_type = "long_term"
                 /\ nStarted' # nStarted         \* not result.startswith(Busy prefix)
                 /\ WaitContinues(st', now, time_scale, running)
              THEN /\ is_executing_behavior' = TRUE
                   /\ current_executing_behavior' = Some(task.description)
                   /\ exec_pc' = [exec_pc EXCEPT ![e] = "wait"]
                   /\ UNCHANGED <<unfinished_tasks, last_interaction_time>>
              ELSE FinishTask(e)
    /\ UNCHANGED <<now, time_scale, calls, last, autonomous_task, loops, locals, history, orch_pc, ui_pc,
                   running, mode, enqueued, cycles>>

\* the queue is empty: await asyncio.sleep(0.5)
ExecIdle(e) ==
    /\ e <= loops /\ running
    /\ exec_pc[e] = "run"
    /\ behavior_queue = <<>>
    /\ exec_pc' = [exec_pc EXCEPT ![e] = "poll"]
    /\ UNCHANGED <<smvars, behavior_queue, unfinished_tasks, autonomous_task, loops, locals, history,
                   orch_pc, ui_pc, is_executing_behavior, current_executing_behavior,
                   running, mode, last_interaction_time, enqueued, cycles, exec_log>>

\* a poll of the long-term wait that finds the behaviour over (or running cleared)
ExecWaitOver(e) ==
    /\ e <= loops
    /\ exec_pc[e] = "wait"
    /\ ~WaitContinues(st, now, time_scale, running)
    /\ FinishTask(e)
    /\ UNCHANGED <<smvars, behavior_queue, autonomous_task, loops, locals, history, orch_pc, ui_pc,
                   running, mode, enqueued, cycles, exec_log>>

\* while self.running: the loop ends
ExecStop(e) ==
    /\ e <= loops /\ ~running
    /\ exec_pc[e] \in {"poll", "run"}
    /\ exec_pc' = [exec_pc EXCEPT ![e] = "stopped"]
    /\ UNCHANGED <<smvars, behavior_queue, unfinished_tasks, autonomous_task, loops, locals, history,
                   orch_pc, ui_pc, is_executing_behavior, current_executing_behavior,
                   running, mode, last_interaction_time, enqueued, cycles, exec_log>>

(* autonomous_behavior_loop.  orch_pc[e] is "sleep" inside asyncio.sleep(3), *)
(* "cycle" while _run_autonomous_cycle awaits the agent, "stopped" at the    *)
(* end.  A tick runs only while the executor of the same event loop is       *)
(* suspended.                                                               *)

\* back to "while self.running:"
OrchLoopTop == IF running THEN "sleep" ELSE "stopped"

\* check_and_clear_completion_flag(), then _run_autonomous_cycle up to the
\* agent call: mode = "autonomous", get_state_description()
BeginAutonomousCycle(e) ==
    /\ cycles < MaxCycles
    /\ cycles' = cycles + 1
    /\ mode' = "autonomous"
    /\ cycle_starts' = IF cycle_starts = None THEN None
                       ELSE Some(Append(Val(cycle_starts), now))
    /\ LET c == check_and_clear_completion_flag(st).st
           r == get_state_description(c, db, now, time_scale)
       IN  /\ st' = r.st /\ db' = r.db
           /\ nCompleted' = nCompleted + (IF r.completed THEN 1 ELSE 0)
           /\ nCompletedAtCheck' = nCompleted
           /\ UNCHANGED <<nStarted, nInterrupted>>
    /\ orch_pc' = [orch_pc EXCEPT ![e] = "cycle"]

\* The same after stop() has closed the connection: the first save_state()
\* inside get_state_description raises sqlite3.ProgrammingError with the
\* state in memory already changed.  Nothing in autonomous_behavior_loop
\* catches it, so the thread ends as in AutonomousCycleRaises.
BeginCycleAfterClose(e) ==
    /\ mode' = "autonomous"
    /\ LET c == check_and_clear_completion_flag(st).st
           r == get_state_description_closed(c, now, time_scale)
       IN  /\ st' = r.st /\ db' = db
           /\ nCompleted' = nCompleted + (IF r.completed THEN 1 ELSE 0)
           /\ nCompletedAtCheck' = nCompleted
           /\ UNCHANGED <<nStarted, nInterrupted>>
    /\ orch_pc' = [orch_pc EXCEPT ![e] = "dead"]
    /\ exec_pc' = [exec_pc EXCEPT ![e] = IF @ = "stopped" THEN @ ELSE "dead"]
    /\ UNCHANGED <<cycles, cycle_starts>>

\* await self._run_autonomous_cycle(), up to the agent call
RunAutonomousCycle(e) ==
    IF running
    THEN BeginAutonomousCycle(e) /\ UNCHANGED exec_pc
    ELSE BeginCycleAfterClose(e)

\* is_busy(): the tick is skipped
OrchTickBusy(e) ==
    /\ e <= loops /\ orch_pc[e] = "sleep" /\ exec_pc[e] # "run"
    /\ is_busy(st, now, time_scale)
    /\ orch_pc' = [orch_pc EXCEPT ![e] = OrchLoopTop]
    /\ UNCHANGED <<smvars, behavior_queue, unfinished_tasks, autonomous_task, loops, locals, history,
                   exec_pc, ui_pc, is_executing_behavior, current_executing_behavior,
                   running, mode, last_interaction_time, enqueued, cycles, exec_log>>

\* the completion branch taken without the is_busy() test before it
OrchTickCompleted_while_busy(e) ==
    /\ e <= loops /\ orch_pc[e] = "sleep" /\ exec_pc[e] # "run"
    /\ check_and_clear_completion_flag(st).ret
    /\ IF now - last_interaction_time >= autonomous_interval
       THEN RunAutonomousCycle(e)
       ELSE /\ DoCheckAndClear
            /\ orch_pc' = [orch_pc EXCEPT ![e] = OrchLoopTop]
            /\ UNCHANGED <<mode, cycles, cycle_starts, exec_pc>>
    /\ UNCHANGED <<now, time_scale, calls, last, behavior_queue, unfinished_tasks,
                   autonomous_task, loops, locals, task_origin, ui_pc, is_executing_behavior,
                   current_executing_behavior, running, last_interaction_time,
                   enqueued, exec_log>>

\* check_and_clear_completion_flag() returned true
OrchTickCompleted(e) ==
    /\ e <= loops /\ orch_pc[e] = "sleep" /\ exec_pc[e] # "run"
    /\ ~is_busy(st, now, time_scale)
    /\ check_and_clear_completion_flag(st).ret
    /\ IF now - last_interaction_time >= autonomous_interval
       THEN RunAutonomousCycle(e)
       ELSE /\ DoCheckAndClear
            /\ orch_pc' = [orch_pc EXCEPT ![e] = OrchLoopTop]
            /\ UNCHANGED <<mode, cycles, cycle_starts, exec_pc>>
    /\ UNCHANGED <<now, time_scale, calls, last, behavior_queue, unfinished_tasks,
                   autonomous_task, loops, locals, task_origin, ui_pc, is_executing_behavior,
                   current_executing_behavior, running, last_interaction_time,
                   enqueued, exec_log>>

\* no completion to react to: a cycle starts once the interval has passed
OrchTickTimer(e) ==
    /\ e <= loops /\ orch_pc[e] = "sleep" /\ exec_pc[e] # "run"
    /\ ~is_busy(st, now, time_scale)
    /\ ~check_and_clear_completion_flag(st).ret
    /\ IF now - last_interaction_time >= autonomous_interval
       THEN RunAutonomousCycle(e)
       ELSE /\ DoCheckAndClear
            /\ orch_pc' = [orch_pc EXCEPT ![e] = OrchLoopTop]
            /\ UNCHANGED <<mode, cycles, cycle_starts, exec_pc>>
    /\ UNCHANGED <<now, time_scale, calls, last, behavior_queue, unfinished_tasks,
                   autonomous_task, loops, locals, task_origin, ui_pc, is_executing_behavior,
                   current_executing_behavior, running, last_interaction_time,
                   enqueued, exec_log>>

\* the agent, run by an autonomous cycle, invokes a tool
AutonomousTool(e) ==
    /\ e <= loops /\ orch_pc[e] = "cycle"
    /\ InvokeTool
    /\ task_origin' = Enqueuer("autonomous")
    /\ UNCHANGED <<now, time_scale, calls, last, autonomous_task, loops, locals, cycle_starts,
                   exec_pc, orch_pc,
                   ui_pc, is_executing_behavior, current_executing_behavior, running,
                   mode, last_interaction_time, cycles, exec_log>>

\* the end of an autonomous cycle without the reset of the timer
EndAutonomousCycle_keeping_timer(e) ==
    /\ e <= loops /\ orch_pc[e] = "cycle" /\ exec_pc[e] # "run"
    /\ orch_pc' = [orch_pc EXCEPT ![e] = OrchLoopTop]
    /\ UNCHANGED <<smvars, behavior_queue, unfinished_tasks, autonomous_task, loops, locals,
                   history, exec_pc, ui_pc, is_executing_behavior,
                   current_executing_behavior, running, mode, last_interaction_time,
                   enqueued, cycles, exec_log>>

\* Runner.run returned: the timer is reset, back to the top of the loop
EndAutonomousCycle(e) ==
    /\ e <= loops /\ orch_pc[e] = "cycle" /\ exec_pc[e] # "run"
    /\ last_interaction_time' = now
    /\ orch_pc' = [orch_pc EXCEPT ![e] = OrchLoopTop]
    /\ UNCHANGED <<smvars, behavior_queue, unfinished_tasks, autonomous_task, loops, locals, history,
                   exec_pc, ui_pc, is_executing_behavior, current_executing_behavior,
                   running, mode, enqueued, cycles, exec_log>>

(* handle_user_input, on the UI thread.  main() calls stop() once the UI   *)
(* server has returned, so the handlers run only while running is true.    *)

\* the timer is reset, then _run_interactive_cycle up to the agent call
UserInput ==
    /\ autonomous_task # None
    /\ running
    /\ ui_pc = "idle"
    /\ cycles < MaxCycles
    /\ cycles' = cycles + 1
    /\ last_interaction_time' = now
    /\ mode' = "interactive"
    /\ DoGetStateDescription
    /\ ui_pc' = "cycle"
    /\ UNCHANGED <<now, time_scale, calls, last, behavior_queue, unfinished_tasks,
                   autonomous_task, loops, locals, history, exec_pc, orch_pc, is_executing_behavior,
                   current_executing_behavior, running, enqueued, exec_log>>

\* the agent, run by an interactive cycle, invokes a tool
InteractiveTool ==
    /\ running
    /\ ui_pc = "cycle"
    /\ InvokeTool
    /\ task_origin' = Enqueuer("interactive")
    /\ UNCHANGED <<now, time_scale, calls, last, autonomous_task, loops, locals, cycle_starts,
                   exec_pc, orch_pc,
                   ui_pc, is_executing_behavior, current_executing_behavior, running,
                   mode, last_interaction_time, cycles, exec_log>>

\* the cycle returned: the timer is reset again
EndUserInput ==
    /\ running
    /\ ui_pc = "cycle"
    /\ last_interaction_time' = now
    /\ ui_pc' = "idle"
    /\ UNCHANGED <<smvars, behavior_queue, unfinished_tasks, autonomous_task, loops, locals, history,
                   exec_pc, orch_pc, is_executing_behavior, current_executing_behavior,
                   running, mode, enqueued, cycles, exec_log>>

\* set_time_scale, from the slider or a preset of the UI
SetTimeScale ==
    /\ autonomous_task # None
    /\ running
    /\ \E scale \in TimeScales : time_scale' = scale
    /\ UNCHANGED <<now, st, db, last, calls, counters, sysvars>>

\* stop(): running = False
Stop ==
    /\ autonomous_task # None
    /\ running
    /\ running' = FALSE
    /\ UNCHANGED <<smvars, behavior_queue, unfinished_tasks, autonomous_task, loops, locals, history,
                   exec_pc, orch_pc, ui_pc, is_executing_behavior,
                   current_executing_behavior, mode, last_interaction_time,
                   enqueued, cycles, exec_log>>

\* time passes: a second, or a whole autonomous interval
\* (single seconds only in the first FineSeconds of each interval)
Elapse ==
    /\ autonomous_task # None
    /\ \/ (now % autonomous_interval) < FineSeconds /\ Advance(1, MaxClock)
       \/ Advance(autonomous_interval, MaxClock)

Next ==
    \/ Elapse
    \/ StartAutonomousTask
    \/ \E e \in Loops : ExecTask(e)
    \/ \E e \in Loops : ExecIdle(e)
    \/ \E e \in Loops : ExecWaitOver(e)
    \/ \E e \in Loops : ExecStop(e)
    \/ \E e \in Loops : OrchTickBusy(e)
    \/ \E e \in Loops : OrchTickCompleted(e)
    \/ \E e \in Loops : OrchTickTimer(e)
    \/ \E e \in Loops : AutonomousTool(e)
    \/ \E e \in Loops : EndAutonomousCycle(e)
    \/ UserInput
    \/ InteractiveTool
    \/ EndUserInput
    \/ SetTimeScale
    \/ Stop

Spec == Init /\ [][Next]_vars

\* Spec with the history recorded
SpecRecorded == InitRecorded /\ [][Next]_vars

----------------------------------------------------------------------------
(* SpecTimer: the loops and the UI handlers over a clock long enough for   *)
(* two autonomous cycles.  The time scale stays at its default and stop()  *)
(* is not called.                                                          *)

\* the clock of SpecTimer stops advancing here
MaxTimerClock == 2 * autonomous_interval

ElapseLong ==
    /\ autonomous_task # None
    /\ \/ (now % autonomous_interval) < FineSeconds /\ Advance(1, MaxTimerClock)
       \/ Advance(autonomous_interval, MaxTimerClock)

NextTimer ==
    \/ ElapseLong
    \/ StartAutonomousTask
    \/ \E e \in Loops : ExecTask(e)
    \/ \E e \in Loops : ExecIdle(e)
    \/ \E e \in Loops : ExecWaitOver(e)
    \/ \E e \in Loops : OrchTickBusy(e)
    \/ \E e \in Loops : OrchTickCompleted(e)
    \/ \E e \in Loops : OrchTickTimer(e)
    \/ \E e \in Loops : AutonomousTool(e)
    \/ \E e \in Loops : EndAutonomousCycle(e)
    \/ UserInput
    \/ InteractiveTool
    \/ EndUserInput

SpecTimer == InitRecorded /\ [][NextTimer]_vars

----------------------------------------------------------------------------
(* SpecFaults: the two loops and the UI handlers with calls that raise.    *)
(* The time scale stays at its default and stop() is not called.           *)

\* Runner.run raises inside _run_autonomous_cycle.  Nothing in
\* autonomous_behavior_loop catches it: asyncio.gather passes it on,
\* run_until_complete raises in run_loop and the thread ends, so the
\* executor, suspended in a sleep of the same event loop, is never resumed.
AutonomousCycleRaises(e) ==
    /\ e <= loops /\ orch_pc[e] = "cycle" /\ exec_pc[e] # "run"
    /\ orch_pc' = [orch_pc EXCEPT ![e] = "dead"]
    /\ exec_pc' = [exec_pc EXCEPT ![e] = "dead"]
    /\ UNCHANGED <<smvars, behavior_queue, unfinished_tasks, autonomous_task, loops, locals, history,
                   ui_pc, is_executing_behavior, current_executing_behavior,
                   running, mode, last_interaction_time, enqueued, cycles, exec_log>>

\* task.action() raises at its save_state(): the state in memory has the
\* action's effect, the table row is not written.  "except Exception as e"
\* around the action catches it; the markers are cleared and task_done() is
\* called, the timer reset of the try block is skipped.
ExecTaskRaises_uncaught(e) ==
    /\ e <= loops /\ running
    /\ exec_pc[e] \in {"poll", "run"}
    /\ behavior_queue # <<>>
    /\ behavior_queue' = Tail(behavior_queue)
    /\ exec_log' = Append(exec_log, QueueGet(behavior_queue).id)
    /\ is_executing_behavior' = TRUE
    /\ current_executing_behavior' = Some(QueueGet(behavior_queue).description)
    /\ exec_pc' = [exec_pc EXCEPT ![e] = "dead"]
    /\ orch_pc' = [orch_pc EXCEPT ![e] = "dead"]
    /\ UNCHANGED <<smvars, unfinished_tasks, autonomous_task, loops, locals, history, ui_pc,
                   running, mode, last_interaction_time, enqueued, cycles>>

ExecTaskRaises(e) ==
    /\ e <= loops /\ running
    /\ exec_pc[e] \in {"poll", "run"}
    /\ behavior_queue # <<>>
    /\ LET task == QueueGet(behavior_queue)
       IN  /\ task.call # "none"
           /\ behavior_queue' = Tail(behavior_queue)
           /\ exec_log' = Append(exec_log, task.id)
           /\ CASE task.call = "modify_state" ->
                      /\ st' = modify_state(st, now, task.kw).st
                      /\ UNCHANGED counters
                [] task.call = "start_behavior" ->
                      LET r == start_behavior(st, db, now, time_scale, task.kind,
                                              task.estimated_duration, Description(task.kind))
                      IN  /\ r.ok
                          /\ st' = r.st
                          /\ nStarted' = nStarted + 1
                          /\ UNCHANGED <<nCompleted, nInterrupted, nCompletedAtCheck>>
           /\ db' = db
    /\ is_executing_behavior' = FALSE
    /\ current_executing_behavior' = None
    /\ unfinished_tasks' = unfinished_tasks - 1
    /\ exec_pc' = [exec_pc EXCEPT ![e] = "run"]
    /\ UNCHANGED <<now, time_scale, calls, last, autonomous_task, loops, locals, history, orch_pc, ui_pc,
                   running, mode, last_interaction_time, enqueued, cycles>>

NextFaults ==
    \/ Elapse
    \/ StartAutonomousTask
    \/ \E e \in Loops : ExecTask(e)
    \/ \E e \in Loops : ExecTaskRaises(e)
    \/ \E e \in Loops : ExecIdle(e)
    \/ \E e \in Loops : ExecWaitOver(e)
    \/ \E e \in Loops : OrchTickBusy(e)
    \/ \E e \in Loops : OrchTickCompleted(e)
    \/ \E e \in Loops : OrchTickTimer(e)
    \/ \E e \in Loops : AutonomousTool(e)
    \/ \E e \in Loops : AutonomousCycleRaises(e)
    \/ \E e \in Loops : EndAutonomousCycle(e)
    \/ UserInput
    \/ InteractiveTool
    \/ EndUserInput

SpecFaults == Init /\ [][NextFaults]_vars

----------------------------------------------------------------------------
(* SpecAssetFault: SpecFaults with a video callback that raises as well.   *)

\* self._on_video_request(task.behavior_name) raises.  The call stands
\* before the try block of the action, so the outer "except Exception" of
\* the loop catches it: the task has left the queue and the markers are set,
\* the action, the clearing of the markers and task_done() are skipped, and
\* the loop goes on after asyncio.sleep(1).
VideoRequestRaises(e) ==
    /\ e <= loops /\ running
    /\ exec_pc[e] \in {"poll", "run"}
    /\ behavior_queue # <<>>
    /\ LET task == QueueGet(behavior_queue)
       IN  /\ behavior_queue' = Tail(behavior_queue)
           /\ is_executing_behavior' = TRUE
           /\ current_executing_behavior' = Some(task.description)
    /\ exec_pc' = [exec_pc EXCEPT ![e] = "poll"]
    /\ UNCHANGED <<smvars, unfinished_tasks, autonomous_task, loops, locals, history,
                   orch_pc, ui_pc, running, mode, last_interaction_time, enqueued,
                   cycles, exec_log>>

NextAssetFault ==
    \/ Elapse
    \/ StartAutonomousTask
    \/ \E e \in Loops : ExecTask(e)
    \/ \E e \in Loops : ExecTaskRaises(e)
    \/ \E e \in Loops : VideoRequestRaises(e)
    \/ \E e \in Loops : ExecIdle(e)
    \/ \E e \in Loops : ExecWaitOver(e)
    \/ \E e \in Loops : OrchTickBusy(e)
    \/ \E e \in Loops : OrchTickCompleted(e)
    \/ \E e \in Loops : OrchTickTimer(e)
    \/ \E e \in Loops : AutonomousTool(e)
    \/ \E e \in Loops : AutonomousCycleRaises(e)
    \/ \E e \in Loops : EndAutonomousCycle(e)
    \/ UserInput
    \/ InteractiveTool
    \/ EndUserInput

SpecAssetFault == Init /\ [][NextAssetFault]_vars

----------------------------------------------------------------------------
(* SpecSM: the state manager driven directly, one call after another, by   *)
(* an arbitrary caller.                                                    *)

\* a direct call: A is its effect, r what it returned
Call(op, A, ok, completed) ==
    /\ calls < MaxCalls
    /\ calls' = calls + 1
    /\ A
    /\ last' = Called(op, ok, completed)
    /\ UNCHANGED <<now, time_scale, sysvars>>

Tick == Advance(1, MaxTime)

CallModifyState ==
    \E kw \in ModifyInputs : Call("modify_state", DoModifyState(kw), TRUE, FALSE)

CallUpdateStateByTime ==
    Call("update_state_by_time", DoUpdateStateByTime, TRUE,
         update_state_by_time(st, db, now, time_scale).completed)

CallStartBehavior ==
    \E k \in Kinds, d \in Durations :
        Call("start_behavior", DoStartBehavior(k, d),
             start_behavior(st, db, now, time_scale, k, d, Description(k)).ok, FALSE)

CallInterruptBehavior ==
    Call("interrupt_behavior", DoInterruptBehavior,
         interrupt_behavior(st, db, now).ok, FALSE)

CallCheckAndClear ==
    Call("check_and_clear_completion_flag", DoCheckAndClear,
         check_and_clear_completion_flag(st).ret, FALSE)

NextSM ==
    \/ Tick
    \/ CallModifyState
    \/ CallUpdateStateByTime
    \/ CallStartBehavior
    \/ CallInterruptBehavior
    \/ CallCheckAndClear

\* a state manager just constructed, over any row the table can hold
InitDirect ==
    /\ InitSM
    /\ InitSys
    /\ NoHistory

SpecSM == InitDirect /\ [][NextSM]_vars

----------------------------------------------------------------------------
(* SpecOps: the state manager driven by the calls the program makes on it. *)
(* update_state_by_time is reached only through get_state_description.     *)

CallGetStateDescription ==
    Call("get_state_description", DoGetStateDescription, TRUE,
         get_state_description(st, db, now, time_scale).completed)

NextOps ==
    \/ Tick
    \/ CallModifyState
    \/ CallGetStateDescription
    \/ CallStartBehavior
    \/ CallInterruptBehavior
    \/ CallCheckAndClear

SpecOps == InitDirect /\ [][NextOps]_vars

----------------------------------------------------------------------------
(* The behaviour catalogue of src/dog_behaviors.py: every tool with the    *)
(* default of its duration_seconds parameter and what its queued           *)
(* execute_behavior calls.                                                 *)

Instant(name, duration_seconds, kw) ==
    [name |-> name, behavior_type |-> "instant", duration_seconds |-> duration_seconds,
     call |-> "modify_state", kw |-> kw, kind |-> "none"]

\* action_func=None: execute_behavior only returns the message
NoAction(name, duration_seconds) ==
    [name |-> name, behavior_type |-> "instant", duration_seconds |-> duration_seconds,
     call |-> "none", kw |-> NoKw, kind |-> "none"]

LongTerm(name, duration_seconds, kind) ==
    [name |-> name, behavior_type |-> "long_term", duration_seconds |-> duration_seconds,
     call |-> "start_behavior", kw |-> NoKw, kind |-> kind]

Catalog ==
    { Instant("stretch", 5, [fatigue |-> -Pt(3), happiness |-> Pt(2)]),
      Instant("yawn", 3, [fatigue |-> -Pt(2)]),
      LongTerm("drink_water", 480, "drinking"),
      LongTerm("eat_food", 720, "eating"),
      Instant("lick_fur", 30, [happiness |-> Pt(3), boredom |-> -Pt(2)]),
      LongTerm("sleep", 7200, "sleeping"),
      Instant("wag_tail", 5, [happiness |-> Pt(5)]),
      Instant("nuzzle_owner", 10, [happiness |-> Pt(8), boredom |-> -Pt(5)]),
      Instant("lick_hand", 8, [happiness |-> Pt(7), boredom |-> -Pt(3)]),
      Instant("follow_owner", 15, [happiness |-> Pt(5), boredom |-> -Pt(5)]),
      Instant("look_up_at_owner", 3, [happiness |-> Pt(3)]),
      Instant("sniff_ground", 10, [boredom |-> -Pt(8), fatigue |-> Pt(2)]),
      Instant("walk_in_circles", 20, [boredom |-> -Pt(5), fatigue |-> Pt(3)]),
      Instant("paw_at_object", 15, [boredom |-> -Pt(10), happiness |-> Pt(5)]),
      Instant("look_out_window", 60, [boredom |-> -Pt(12), happiness |-> Pt(5)]),
      Instant("chase_light", 60, [boredom |-> -Pt(15), fatigue |-> Pt(8), happiness |-> Pt(10)]),
      Instant("bark", 5, [boredom |-> -Pt(5)]),
      Instant("growl", 8, [happiness |-> -Pt(5)]),
      Instant("pin_ears_back", 5, [happiness |-> -Pt(3)]),
      Instant("tuck_tail", 10, [happiness |-> -Pt(5)]),
      Instant("jump_excitedly", 15, [happiness |-> Pt(8), boredom |-> -Pt(10), fatigue |-> Pt(5)]),
      Instant("sit", 30, [happiness |-> Pt(5), fatigue |-> -Pt(3)]),
      Instant("lie_down", 60, [fatigue |-> -Pt(5), happiness |-> Pt(3)]),
      Instant("shake_paw", 5, [happiness |-> Pt(8), boredom |-> -Pt(5)]),
      Instant("roll_over", 8, [happiness |-> Pt(10), boredom |-> -Pt(8), fatigue |-> Pt(3)]),
      Instant("play_dead", 10, [happiness |-> Pt(7), boredom |-> -Pt(6)]),
      Instant("fetch_object", 60, [happiness |-> Pt(12), boredom |-> -Pt(15), fatigue |-> Pt(10)]),
      Instant("scratch_itch", 10, [happiness |-> Pt(3)]),
      NoAction("sneeze", 2),
      Instant("shake_body", 5, [happiness |-> Pt(3)]),
      NoAction("snore", 60),
      NoAction("dream_twitch", 30) }

\* duration_minutes = duration_seconds / 60
duration_minutes_of(duration_seconds) == (duration_seconds * TimeUnit) \div 60

\* the queued execute_behavior of a catalogue entry, run as the executor runs it
ExecuteBehavior(tool, duration_seconds) ==
    CASE tool.call = "modify_state" -> DoModifyState(tool.kw)
      [] tool.call = "start_behavior" ->
             DoStartBehavior(tool.kind, duration_minutes_of(duration_seconds))
      [] OTHER -> UNCHANGED <<st, db, counters>>

----------------------------------------------------------------------------
(* SpecLongTerm: the long-term tools called with their default durations,  *)
(* the clock running long enough for the shorter ones to finish.           *)

MaxToolTime == 12     \* the clock of SpecLongTerm stops advancing here
MaxToolCalls == 3     \* tool and refresh calls in one behaviour of SpecLongTerm

LongTermTools == {tool \in Catalog : tool.behavior_type = "long_term"}

TickLongTerm == Advance(1, MaxToolTime)

\* a call made while fewer than MaxToolCalls have been made
ToolCall(op, A, ok, completed) ==
    /\ calls < MaxToolCalls
    /\ Call(op, A, ok, completed)

CallLongTermTool ==
    \E tool \in LongTermTools :
        ToolCall(tool.name, ExecuteBehavior(tool, tool.duration_seconds),
                 ~is_busy(st, now, time_scale), FALSE)

RefreshLongTerm ==
    ToolCall("update_state_by_time", DoUpdateStateByTime, TRUE,
             update_state_by_time(st, db, now, time_scale).completed)

NextLongTerm ==
    \/ TickLongTerm
    \/ CallLongTermTool
    \/ RefreshLongTerm

SpecLongTerm == InitDirect /\ [][NextLongTerm]_vars

----------------------------------------------------------------------------
(* SpecCatalog: the queued actions of the catalogue run one after another, *)
(* as the executor runs them, on a state manager just constructed.         *)

MaxCatalogCalls == 2  \* queued actions run in one behaviour of SpecCatalog

InstantTools == {tool \in Catalog : tool.behavior_type = "instant"}

\* the queued action of a tool, run while fewer than MaxCatalogCalls have run
CatalogCall(tool, ok) ==
    /\ calls < MaxCatalogCalls
    /\ Call(tool.name, ExecuteBehavior(tool, tool.duration_seconds), ok, FALSE)

RunInstantAction == \E tool \in InstantTools : CatalogCall(tool, TRUE)

RunLongTermAction ==
    \E tool \in LongTermTools :
        CatalogCall(tool, start_behavior(st, db, now, time_scale, tool.kind,
                                         duration_minutes_of(tool.duration_seconds),
                                         Description(tool.kind)).ok)

NextCatalog ==
    \/ RunInstantAction
    \/ RunLongTermAction

SpecCatalog == InitDirect /\ [][NextCatalog]_vars

----------------------------------------------------------------------------
(* SpecRace: one get_state_description of the UI thread (an interactive    *)
(* cycle) and one modify_state of the background thread (the executor      *)
(* running an instant task), statement by statement.  No lock guards       *)
(* current_state, and the interpreter can switch threads between the read  *)
(* and the write of "x += d" and of getattr/setattr.                       *)

\* the keyword arguments of stretch and of fetch_object, in call order
RaceActions ==
    { << <<"fatigue", -Pt(3)>>, <<"happiness", Pt(2)>> >>,
      << <<"happiness", Pt(12)>>, <<"boredom", -Pt(15)>>, <<"fatigue", Pt(10)>> >> }

\* the same keyword arguments as the mapping modify_state receives
KwOf(seq) ==
    [a \in {seq[i][1] : i \in 1..Len(seq)} |->
        LET i == CHOOSE j \in 1..Len(seq) : seq[j][1] = a IN seq[i][2]]

\* update_state_by_time, lines 113-116: the attributes in statement order,
\* with the rate of each as numerator and denominator
DecayOrder == <<"hunger", "thirst", "fatigue", "boredom">>
DecayRate == [hunger |-> <<2, 1>>, thirst |-> <<3, 2>>, fatigue |-> <<1, 1>>,
              boredom |-> <<3, 2>>]

\* everything but the state, the table and the locals stays as it is
RaceFrame == UNCHANGED <<now, time_scale, last, counters, agentvars, history>>

\* the state both calls started from
RaceBase == IF locals.base = None THEN Some(st) ELSE locals.base

\* update_state_by_time, lines 102-112: current_time, elapsed_minutes, the
\* behaviour progress
UiBegin ==
    /\ locals.ui.pc = "idle"
    /\ LET p == IF st.current_behavior # None
                THEN update_behavior_progress(st, db, now, time_scale)
                ELSE [st |-> st, db |-> db, completed |-> FALSE]
       IN  /\ st' = p.st /\ db' = p.db
           /\ locals' = [locals EXCEPT
                  !.base = RaceBase,
                  !.ui = [Idle EXCEPT
                            !.pc = IF p.st.current_behavior # Some("sleeping")
                                   THEN "decay" ELSE "happy",
                            !.t = now,
                            !.em = elapsed_minutes(now - st.last_update_time, time_scale),
                            !.k = 1]]
    /\ calls' = calls + 1
    /\ RaceFrame

\* the read of "self.current_state.<attribute> += elapsed_minutes * rate"
UiRead ==
    /\ locals.ui.pc = "decay"
    /\ locals' = [locals EXCEPT !.ui.pc = "decay_write",
                                !.ui.tmp = st[DecayOrder[locals.ui.k]]]
    /\ UNCHANGED <<st, db, calls>>
    /\ RaceFrame

\* its write
UiWrite ==
    /\ locals.ui.pc = "decay_write"
    /\ LET a == DecayOrder[locals.ui.k]
       IN  st' = [st EXCEPT ![a] = locals.ui.tmp
                                     + Rate(locals.ui.em, DecayRate[a][1], DecayRate[a][2])]
    /\ locals' = [locals EXCEPT !.ui.k = @ + 1,
                                !.ui.pc = IF locals.ui.k = Len(DecayOrder)
                                          THEN "happy" ELSE "decay"]
    /\ UNCHANGED <<db, calls>>
    /\ RaceFrame

\* lines 119-120: the test, and the read of "happiness -= ..."
UiHappy ==
    /\ locals.ui.pc = "happy"
    /\ locals' = [locals EXCEPT
           !.ui.pc = IF st.hunger > Pt(70) \/ st.thirst > Pt(70)
                     THEN "happy_write" ELSE "finish",
           !.ui.tmp = st.happiness]
    /\ UNCHANGED <<st, db, calls>>
    /\ RaceFrame

UiHappyWrite ==
    /\ locals.ui.pc = "happy_write"
    /\ st' = [st EXCEPT !.happiness = locals.ui.tmp - Rate(locals.ui.em, 1, 2)]
    /\ locals' = [locals EXCEPT !.ui.pc = "finish"]
    /\ UNCHANGED <<db, calls>>
    /\ RaceFrame

\* lines 122-123, then the save_state() of get_state_description
UiFinish ==
    /\ locals.ui.pc = "finish"
    /\ st' = clamp_values([st EXCEPT !.last_update_time = locals.ui.t])
    /\ db' = save_state(st', now)
    /\ locals' = [locals EXCEPT !.ui.pc = "done"]
    /\ UNCHANGED calls
    /\ RaceFrame

\* modify_state(**kwargs) is entered
BgBegin ==
    /\ locals.bg.pc = "idle"
    /\ \E seq \in RaceActions :
          locals' = [locals EXCEPT !.base = RaceBase,
                                  !.bg = [Idle EXCEPT !.pc = "read", !.k = 1, !.kw = seq]]
    /\ calls' = calls + 1
    /\ UNCHANGED <<st, db>>
    /\ RaceFrame

\* current = getattr(self.current_state, key)
BgRead ==
    /\ locals.bg.pc = "read"
    /\ locals' = [locals EXCEPT !.bg.pc = "write",
                                !.bg.tmp = st[locals.bg.kw[locals.bg.k][1]]]
    /\ UNCHANGED <<st, db, calls>>
    /\ RaceFrame

\* setattr(self.current_state, key, current + value)
BgWrite ==
    /\ locals.bg.pc = "write"
    /\ LET kv == locals.bg.kw[locals.bg.k]
       IN  st' = [st EXCEPT ![kv[1]] = locals.bg.tmp + kv[2]]
    /\ locals' = [locals EXCEPT !.bg.k = @ + 1,
                                !.bg.pc = IF locals.bg.k = Len(locals.bg.kw)
                                          THEN "finish" ELSE "read"]
    /\ UNCHANGED <<db, calls>>
    /\ RaceFrame

\* clamp_values(), save_state()
BgFinish ==
    /\ locals.bg.pc = "finish"
    /\ st' = clamp_values(st)
    /\ db' = save_state(st', now)
    /\ locals' = [locals EXCEPT !.bg.pc = "done"]
    /\ UNCHANGED calls
    /\ RaceFrame

\* time passes before the two calls
TickRace ==
    /\ locals = NoLocals
    /\ Advance(1, MaxTime)

NextRace ==
    \/ TickRace
    \/ UiBegin
    \/ UiRead
    \/ UiWrite
    \/ UiHappy
    \/ UiHappyWrite
    \/ UiFinish
    \/ BgBegin
    \/ BgRead
    \/ BgWrite
    \/ BgFinish

SpecRace == InitDirect /\ [][NextRace]_vars

----------------------------------------------------------------------------
(* Properties of the state manager *)

InRange(s) == \A a \in Attributes : s[a] >= 0 /\ s[a] <= Pt(100)

SlotCleared(s) ==
    /\ s.current_behavior = None
    /\ s.behavior_start_time = None
    /\ s.behavior_duration = None
    /\ s.behavior_description = None

\* the behaviour in the slot has run for its whole duration
Expired(s, t, ts) == s.current_behavior # None /\ ~is_busy(s, t, ts)

\* C1: when modify_state or update_state_by_time (alone or inside
\* get_state_description) returns, each of the five attributes is in [0,100].
C1_ClampedOnReturn ==
    last.op \in {"modify_state", "update_state_by_time", "get_state_description"}
        => InRange(st)

\* an adversarial delta was clamped at both ends, and a later decay update
\* kept the values in range
C1_Witness ==
    /\ last.op = "update_state_by_time"
    /\ st.last_update_time > 0
    /\ st.hunger = Pt(100) /\ st.happiness = 0

\* C2: start_behavior called while current_behavior is set returns failure,
\* changes no field of the state and persists nothing.
C2_StartWhileActiveRejected ==
    [][(IsCall("start_behavior") /\ st.current_behavior # None)
          => (~last'.ok /\ st' = st /\ db' = db)]_vars

\* C3: update_state_by_time called once the behaviour's elapsed virtual
\* minutes have reached its duration returns with the slot idle, the kind's
\* attribute exactly 0 and happiness raised by the bonus (capped at 100).
C3_CompletionOnUpdate ==
    [][(IsCall("update_state_by_time") /\ Expired(st, now, time_scale))
          => LET kind == Val(st.current_behavior)
             IN  /\ st'.current_behavior = None
                 /\ st'[CompletionAttribute(kind)] = 0
                 /\ st'.happiness = Min(Pt(100), st.happiness + HappinessBonus(kind))]_vars

\* C8: interrupt_behavior with no behaviour in the slot returns failure,
\* changes no field of the state and persists nothing.
C8_InterruptIdleRejected ==
    [][(IsCall("interrupt_behavior") /\ st.current_behavior = None)
          => (~last'.ok /\ st' = st /\ db' = db)]_vars

C8_Witness ==
    last.op = "interrupt_behavior" /\ ~last.ok /\ db.updated_at # None

\* C9: interrupt_behavior on an active behaviour clears the four slot fields
\* and leaves the five attributes and the just-completed flag as they were.
C9_InterruptKeepsAttributes ==
    [][(IsCall("interrupt_behavior") /\ st.current_behavior # None)
          => /\ last'.ok
             /\ SlotCleared(st')
             /\ \A a \in Attributes : st'[a] = st[a]
             /\ st'.behavior_just_completed = st.behavior_just_completed]_vars

\* a behaviour that a progress update had partly applied was interrupted
C9_Witness ==
    /\ last.op = "interrupt_behavior" /\ last.ok
    /\ SlotCleared(st)
    /\ st.last_update_time > 0
    /\ nCompleted = 0

\* C10: check_and_clear_completion_flag returns true exactly when a behaviour
\* completed since the previous check: true once after a completion, then
\* false until another completion.
C10_FlagEdgeTriggered ==
    [][IsCall("check_and_clear_completion_flag")
          => (last'.ok <=> nCompleted > nCompletedAtCheck)]_vars

\* a completion was read as true by one check and as false by the next
C10_Witness ==
    /\ last.op = "check_and_clear_completion_flag" /\ ~last.ok
    /\ nCompleted > 0 /\ nCompletedAtCheck = nCompleted
    /\ st.behavior_just_completed = Some(FALSE)

----------------------------------------------------------------------------
(* Properties of the executor and the queue *)

\* the ids of the tasks still on the queue, front first
QueuedIds == [i \in 1..Len(behavior_queue) |-> behavior_queue[i].id]

\* a task's action is invoked in this step
ActionInvoked == exec_log' # exec_log

\* C4: every behaviour start_behavior accepted is, at any moment, either
\* still in the slot, interrupted, or completed exactly once.
C4_CompletionExactlyOnce ==
    nStarted = nCompleted + nInterrupted
                 + (IF st.current_behavior # None THEN 1 ELSE 0)

\* C5: the actions invoked so far, followed by the tasks still queued, are
\* the tasks in the order they were enqueued: none skipped, none run twice.
C5_FifoOrder ==
    exec_log \o QueuedIds = [i \in 1..enqueued |-> i]

\* two instant tasks, enqueued one after the other, have both run
C5_Witness ==
    /\ exec_log = <<1, 2>>
    /\ nStarted = 0
    /\ unfinished_tasks = 0

\* C6: no task's action is invoked while is_busy() is true for the behaviour
\* an earlier task started.
C6_NoActionWhileBusy ==
    [][ActionInvoked => ~is_busy(st, now, time_scale)]_vars

\* C7: a task's action is invoked only when no earlier task is still in
\* progress, neither in its action nor in its long-term wait.
C7_OneTaskAtATime ==
    [][ActionInvoked
          => /\ unfinished_tasks = Len(behavior_queue)
             /\ ~is_executing_behavior
             /\ \A e \in Loops : exec_pc[e] # "wait"]_vars

\* the executor is inside a long-term wait with another task queued behind
C7_Witness ==
    /\ \E e \in Loops : exec_pc[e] = "wait"
    /\ is_executing_behavior
    /\ Len(behavior_queue) = 1
    /\ now > 0

----------------------------------------------------------------------------
(* Properties of the tools *)

\* the behaviour drink_water(duration_seconds=480) started is in the slot,
\* at time scale 60
DrinkingAtSixty ==
    /\ time_scale = 60
    /\ st.current_behavior = Some("drinking")
    /\ st.behavior_duration = Some(Minutes(8))

\* C11: at time scale 60 the behaviour of drink_water(duration_seconds=480)
\* lasts 8 virtual minutes: is_busy() is true before 8 real seconds have
\* passed since the start and false from then on, and a refresh at or after
\* 8 real seconds completes it.
C11_DrinkEightSeconds ==
    /\ [](DrinkingAtSixty =>
            (is_busy(st, now, time_scale) <=> now - Val(st.behavior_start_time) < 8))
    /\ [][(IsCall("drink_water") /\ last'.ok)
             => /\ st'.current_behavior = Some("drinking")
                /\ st'.behavior_duration = Some(Minutes(8))]_vars
    /\ [][(IsCall("update_state_by_time") /\ DrinkingAtSixty /\ now - Val(st.behavior_start_time) >= 8)
             => (SlotCleared(st') /\ nCompleted' = nCompleted + 1)]_vars

\* the drink was completed by a refresh exactly 8 real seconds after its start
C11_Witness ==
    /\ time_scale = 60
    /\ now = 8
    /\ last.completed
    /\ nStarted = 1 /\ nCompleted = 1
    /\ st.drinking_initial_thirst # None
    /\ st.last_update_time = 8

----------------------------------------------------------------------------
(* Properties of the orchestrator *)

\* C12: a tick that finds the just-completed flag set less than
\* autonomous_interval after the last interaction starts no autonomous cycle
\* and still clears the flag, so that the next check reads false.
C12_SuppressedButCleared ==
    [][\A e \in Loops :
          (OrchTickCompleted(e) /\ now - last_interaction_time < autonomous_interval)
             => /\ cycles' = cycles
                /\ orch_pc'[e] # "cycle"
                /\ mode' = mode
                /\ st'.behavior_just_completed = Some(FALSE)
                /\ ~check_and_clear_completion_flag(st').ret]_vars

\* a behaviour completed by an interactive cycle had its flag cleared by a
\* tick, with no autonomous cycle after it
C12_Witness ==
    /\ nCompleted = 1 /\ nCompletedAtCheck = 1
    /\ st.behavior_just_completed = Some(FALSE)
    /\ mode = "interactive"
    /\ cycles = 2
    /\ now - last_interaction_time < autonomous_interval

\* C13: no exception ends a background loop: both loops of every started
\* thread are still running, whatever has raised.
C13_LoopsSurvive ==
    \A e \in Loops : orch_pc[e] # "dead" /\ exec_pc[e] # "dead"

\* C14: when a task's action raises, the executor clears the executing
\* markers, marks the task done and stands ready for the next task.
C14_ActionErrorCaught ==
    [][\A e \in Loops :
          ExecTaskRaises(e)
             => /\ ~is_executing_behavior'
                /\ current_executing_behavior' = None
                /\ unfinished_tasks' = unfinished_tasks - 1
                /\ unfinished_tasks' = Len(behavior_queue')
                /\ exec_pc'[e] = "run"]_vars

\* two instant tasks were executed and both raised at save_state: memory
\* holds both deltas, the table neither, and no task is left unfinished
C14_Witness ==
    /\ exec_log = <<1, 2>>
    /\ unfinished_tasks = 0
    /\ nStarted = 0
    /\ db.state_data # None
    /\ st.happiness = Val(db.state_data).happiness + Pt(10)
    /\ \A e \in Loops : exec_pc[e] # "dead"

----------------------------------------------------------------------------
(* Properties of concurrent calls *)

\* the update of the UI thread and the delta of the background thread, run
\* one after the other from state s, in either order
SerialOutcomes(s) ==
    LET kw == KwOf(locals.bg.kw)
        t  == locals.ui.t
        u_first == modify_state(update_state_by_time(s, db, t, time_scale).st, t, kw).st
        m_first == update_state_by_time(modify_state(s, t, kw).st, db, t, time_scale).st
    IN  {u_first, m_first}

\* C15: once an update of the UI thread and a modify_state of the background
\* thread have both returned, the attributes are what one of the two serial
\* orders gives: no delta and no decay is lost or counted twice.
C15_NoLostUpdate ==
    (locals.ui.pc = "done" /\ locals.bg.pc = "done")
        => \E o \in SerialOutcomes(Val(locals.base)) :
               \A a \in Attributes : st[a] = o[a]

----------------------------------------------------------------------------
(* Properties of persistence *)

\* C16: saving the state and loading it back gives the same state, every
\* field included: the initial hunger/thirst of an eating/drinking
\* behaviour and the just-completed flag too.
C16_SaveLoadRoundTrip ==
    load_or_create_state(save_state(st, now), now) = st

----------------------------------------------------------------------------
(* Properties of the decision cycles *)

\* the agent of a decision cycle invokes a behaviour tool in this step
ToolInvoked == (\E e \in Loops : AutonomousTool(e)) \/ InteractiveTool

\* C17: a tool invocation of a decision cycle, interrupt_current_behavior
\* included, only enqueues: the state and the table change when the
\* executor runs the task, not when the tool is invoked.
C17_ToolsOnlyEnqueue ==
    [][ToolInvoked => (st' = st /\ db' = db)]_vars

----------------------------------------------------------------------------
(* Properties of the catalogue *)

\* the delta the catalogue lists for attribute a of a tool, 0 when unlisted
ListedDelta(tool, a) == IF a \in DOMAIN tool.kw THEN tool.kw[a] ELSE 0

\* every attribute is its old value plus delta[a], clamped; the fields that
\* are not attributes (the behaviour slot among them) are unchanged
ChangedBy(delta) ==
    /\ \A a \in Attributes : st'[a] = Clamp(st[a] + delta[a])
    /\ \A f \in (DOMAIN st) \ Attributes : st'[f] = st[f]

NoDelta == [a \in Attributes |-> 0]

\* C18: the queued action of an instant behaviour adds the deltas listed for
\* it (wag_tail: happiness+5; fetch_object: happiness+12, boredom-15,
\* fatigue+10) and clamps, so that an attribute it does not list keeps its
\* value within [0,100], and the behaviour slot is unchanged; sneeze, snore and
\* dream_twitch change nothing at all.
C18_CatalogDeltas ==
    /\ [][\A tool \in InstantTools :
            IsCall(tool.name) =>
                IF tool.call = "none"
                THEN st' = st /\ db' = db
                ELSE /\ ChangedBy([a \in Attributes |-> ListedDelta(tool, a)])
                     /\ \A a \in Attributes \ DOMAIN tool.kw :
                            (st[a] >= 0 /\ st[a] <= Pt(100)) => st'[a] = st[a]]_vars
    /\ [][IsCall("wag_tail")
            => ChangedBy([NoDelta EXCEPT !.happiness = Pt(5)])]_vars
    /\ [][IsCall("fetch_object")
            => ChangedBy([NoDelta EXCEPT !.happiness = Pt(12), !.boredom = -Pt(15),
                                         !.fatigue = Pt(10)])]_vars
    /\ [][(IsCall("sneeze") \/ IsCall("snore") \/ IsCall("dream_twitch"))
            => st' = st]_vars

\* fetch_object has run on the loaded state 80/75/90/60/95 while the dog
\* sleeps: happiness and fatigue were clamped at 100, boredom fell by 15 and
\* the slot still holds the sleep
C18_Witness ==
    /\ last.op = "fetch_object" /\ calls = 2
    /\ st.happiness = Pt(100) /\ st.fatigue = Pt(100) /\ st.boredom = Pt(45)
    /\ st.hunger = Pt(80) /\ st.thirst = Pt(75)
    /\ st.current_behavior = Some("sleeping")
    /\ db = save_state(st, now)

----------------------------------------------------------------------------
(* Properties of the saved snapshots *)

\* C19: every snapshot save_state writes, from a state whose attributes were
\* within [0,100] before the call, has all five attributes within [0,100].
C19_SavedSnapshotsInRange ==
    [][(db' # db /\ InRange(st)) => InRange(Val(db'.state_data))]_vars

----------------------------------------------------------------------------
(* Properties of the orchestrator's busy test *)

\* the step is not one of the other writers of last_interaction_time: no
\* orchestrator is inside an autonomous cycle, no user input is being handled
\* and the executor finishes no task
OnlyTicks ==
    /\ \A e \in Loops : orch_pc[e] # "cycle"
    /\ ui_pc = "idle" /\ ui_pc' = "idle"
    /\ unfinished_tasks' = unfinished_tasks

\* C20: while is_busy() is true an orchestrator tick does nothing: no
\* orchestrator goes from its sleep into an autonomous cycle, the
\* just-completed flag is neither read-and-cleared nor lost, and the interaction
\* timer keeps its value.
C20_BusyTickSkips ==
    [][is_busy(st, now, time_scale) =>
          /\ \A e \in Loops : orch_pc[e] = "sleep" => orch_pc'[e] # "cycle"
          /\ nCompletedAtCheck' = nCompletedAtCheck
          /\ st.behavior_just_completed = Some(TRUE)
                 => st'.behavior_just_completed = Some(TRUE)
          /\ OnlyTicks => last_interaction_time' = last_interaction_time]_vars

\* an orchestrator is due to tick while a behaviour is running, the flag of
\* an earlier completion still waits to be read and a task has been executed
C20_Witness ==
    \E e \in Loops :
        /\ e <= loops /\ running
        /\ orch_pc[e] = "sleep" /\ exec_pc[e] = "wait"
        /\ is_busy(st, now, time_scale)
        /\ st.behavior_just_completed = Some(TRUE)
        /\ nCompleted = 1 /\ nCompletedAtCheck = 0 /\ nStarted = 2

----------------------------------------------------------------------------
(* Properties of the interaction timer *)

\* C21: an orchestrator leaves its sleep for an autonomous cycle only when
\* at least autonomous_interval seconds have passed since
\* last_interaction_time, the end of the cycle sets last_interaction_time to
\* the current time, and any two autonomous cycles start at least
\* autonomous_interval seconds apart.
C21_CyclesAnIntervalApart ==
    /\ [][\A e \in Loops :
            (orch_pc[e] = "sleep" /\ orch_pc'[e] = "cycle")
                => now - last_interaction_time >= autonomous_interval]_vars
    /\ [][\A e \in Loops :
            (orch_pc[e] = "cycle" /\ orch_pc'[e] # "cycle")
                => last_interaction_time' = now]_vars
    /\ [](\A i, j \in DOMAIN Val(cycle_starts) :
            i < j => Val(cycle_starts)[j] - Val(cycle_starts)[i] >= autonomous_interval)

\* two autonomous cycles have started, the second exactly one interval after
\* the first, which had ended at once
C21_Witness ==
    /\ cycle_starts = Some(<<autonomous_interval, 2 * autonomous_interval>>)
    /\ last_interaction_time = autonomous_interval
    /\ \E e \in Loops : orch_pc[e] = "cycle"

----------------------------------------------------------------------------
(* Properties of the executor *)

\* C22: when the executor runs a long-term task while is_busy() holds,
\* start_behavior rejects it and the executor does not wait: the state and the
\* table are unchanged, the markers are cleared, task_done() is called and the
\* executor stands ready for the next task.
C22_RejectedStartNotAwaited ==
    [][(ActionInvoked /\ Head(behavior_queue).behavior_type = "long_term"
                      /\ is_busy(st, now, time_scale))
          => /\ nStarted' = nStarted /\ st' = st /\ db' = db
             /\ \A e \in Loops : exec_pc'[e] # "wait"
             /\ \E e \in Loops : exec_pc[e] \in {"poll", "run"} /\ exec_pc'[e] = "run"
             /\ ~is_executing_behavior' /\ current_executing_behavior' = None
             /\ unfinished_tasks' = unfinished_tasks - 1]_vars

\* the second of two sleep tasks (no wag_tail has raised the happiness) was
\* rejected: only one behaviour was started, it is running again after the
\* time scale was lowered, and the executor is not waiting
C22_Witness ==
    /\ exec_log = <<1, 2>> /\ nStarted = 1 /\ nInterrupted = 0
    /\ st.happiness = DogState(0).happiness
    /\ running
    /\ is_busy(st, now, time_scale)
    /\ \E e \in Loops : e <= loops /\ exec_pc[e] = "run"
    /\ ~is_executing_behavior /\ unfinished_tasks = 0

\* the executor finishes a task in this step (task_done() is called)
TaskFinished == unfinished_tasks' = unfinished_tasks - 1

\* the kind of cycle that enqueued the task the executor finishes
FinishedOrigin == Val(task_origin)[exec_log'[Len(exec_log')]]

\* C23: when the executor finishes a task, last_interaction_time is set to
\* the current time if the task was enqueued by an interactive cycle and is
\* left alone if it was enqueued by an autonomous cycle, whatever the mode is
\* at that moment.
C23_ResetByOrigin ==
    [][TaskFinished =>
          IF FinishedOrigin = "interactive"
          THEN last_interaction_time' = now
          ELSE last_interaction_time' = last_interaction_time]_vars

----------------------------------------------------------------------------
(* Properties of shutdown *)

\* C24: once running is False, the next poll of an executor waiting for a
\* long-term behaviour ends the wait even though the behaviour is still
\* running, the step that ends it finishes the task, and no task's action is
\* invoked any more.
C24_StopEndsWait ==
    /\ [](\A e \in Loops :
            (e <= loops /\ exec_pc[e] = "wait" /\ ~running) => ENABLED ExecWaitOver(e))
    /\ [][\A e \in Loops :
            (~running /\ exec_pc[e] = "wait" /\ exec_pc'[e] # "wait")
                => /\ exec_pc'[e] = "run" /\ TaskFinished
                   /\ ~is_executing_behavior' /\ st' = st]_vars
    /\ [][~running => ~ActionInvoked]_vars

\* C25: once stop() has set running to False and closed the connection, no
\* orchestrator leaves its sleep for an autonomous cycle, and no step of
\* either loop changes the attributes, last_update_time or the table.
C25_StopQuiesces ==
    [][~running =>
          /\ \A e \in Loops : orch_pc[e] = "sleep" => orch_pc'[e] \in {"sleep", "stopped"}
          /\ mode' = mode
          /\ \A a \in Attributes : st'[a] = st[a]
          /\ st'.last_update_time = st.last_update_time
          /\ db' = db]_vars

----------------------------------------------------------------------------
(* Properties of the video callback *)

\* the executor takes a task from the queue in this step
TaskTaken == behavior_queue # <<>> /\ behavior_queue' = Tail(behavior_queue)

\* C26: whether or not the video callback raises, a task taken from the
\* queue has its action invoked, and the executing marker stays set only
\* while the executor waits for the long-term behaviour it started.
C26_VideoFailureSwallowed ==
    [][TaskTaken =>
          /\ ActionInvoked
          /\ is_executing_behavior' => \E e \in Loops : exec_pc'[e] = "wait"]_vars

----------------------------------------------------------------------------
(* Properties of the decay and of the progress of a behaviour *)

\* the virtual minutes update_state_by_time finds elapsed in this state
ElapsedNow == elapsed_minutes(now - st.last_update_time, time_scale)

\* x points per virtual minute over m elapsed (x = num / den)
PerMinute(m, num, den) == (m * num * Scale) \div (den * TimeUnit)

\* a behaviour of that kind is in the slot and its time has not run out
Unfinished(kind) ==
    st.current_behavior = Some(kind) /\ is_busy(st, now, time_scale)

\* the happiness update_state_by_time leaves when hunger h and thirst t are
\* the values after the decay and before the clamp
HappinessAfter(h, t) ==
    Clamp(IF h > Pt(70) \/ t > Pt(70)
          THEN st.happiness - PerMinute(ElapsedNow, 1, 2)
          ELSE st.happiness)

\* C27: update_state_by_time over m elapsed virtual minutes with no
\* behaviour in the slot adds 2.0*m to hunger, 1.5*m to thirst, 1.0*m to
\* fatigue and 1.5*m to boredom, takes 0.5*m from happiness exactly when the
\* hunger or the thirst so reached is above 70, and clamps; during an
\* unfinished eating or drinking the attributes the behaviour does not drive
\* decay in the same way; during an unfinished sleep hunger and thirst keep
\* their values, fatigue and boredom do not grow, and happiness falls only if
\* hunger or thirst is above 70.
C27_DecayRates ==
    /\ [][(IsCall("update_state_by_time") /\ st.current_behavior = None)
            => LET m == ElapsedNow
                   h == st.hunger + PerMinute(m, 2, 1)
                   t == st.thirst + PerMinute(m, 3, 2)
               IN  /\ st'.hunger = Clamp(h)
                   /\ st'.thirst = Clamp(t)
                   /\ st'.fatigue = Clamp(st.fatigue + PerMinute(m, 1, 1))
                   /\ st'.boredom = Clamp(st.boredom + PerMinute(m, 3, 2))
                   /\ st'.happiness = HappinessAfter(h, t)
                   /\ st'.last_update_time = now]_vars
    /\ [][(IsCall("update_state_by_time") /\ (Unfinished("eating") \/ Unfinished("drinking")))
            => LET m == ElapsedNow
               IN  /\ Unfinished("eating") => st'.thirst = Clamp(st.thirst + PerMinute(m, 3, 2))
                   /\ Unfinished("drinking") => st'.hunger = Clamp(st.hunger + PerMinute(m, 2, 1))
                   /\ st'.fatigue = Clamp(st.fatigue + PerMinute(m, 1, 1))
                   /\ st'.boredom = Clamp(st.boredom + PerMinute(m, 3, 2))]_vars
    /\ [][(IsCall("update_state_by_time") /\ Unfinished("sleeping"))
            => /\ st'.hunger = Clamp(st.hunger)
               /\ st'.thirst = Clamp(st.thirst)
               /\ st'.fatigue <= Pt(80) /\ st'.boredom <= Pt(50)
               /\ st'.happiness = HappinessAfter(st.hunger, st.thirst)]_vars

\* two seconds at time scale 60 after a start from the loaded state
\* 80/75/90/60/95, with nothing in the slot: hunger 84, thirst 78, fatigue 92,
\* boredom 63 and happiness 94
C27_Witness ==
    /\ last.op = "update_state_by_time" /\ ~last.completed
    /\ time_scale = 60 /\ now = 2 /\ calls = 1
    /\ st.current_behavior = None /\ st.last_update_time = 2
    /\ st.hunger = Pt(84) /\ st.thirst = Pt(78) /\ st.fatigue = Pt(92)
    /\ st.boredom = Pt(63) /\ st.happiness = Pt(94)

\* initial * (1 - p), floored at 0, for the progress p of the behaviour in
\* the slot: p = (virtual minutes since its start) / (its duration)
Remaining(initial) ==
    LET be == elapsed_minutes(now - Val(st.behavior_start_time), time_scale)
        dur == Val(st.behavior_duration)
    IN  Max(0, (initial * (dur - be)) \div dur)

\* C28: after update_state_by_time during an unfinished eating, hunger is
\* initial * (1 - p) for the hunger start_behavior captured, floored at 0, and
\* likewise thirst during an unfinished drinking.
C28_EatingDrinkingProgress ==
    /\ [][(IsCall("update_state_by_time") /\ Unfinished("eating")
                                          /\ st.eating_initial_hunger # None)
            => st'.hunger = Remaining(Val(st.eating_initial_hunger))]_vars
    /\ [][(IsCall("update_state_by_time") /\ Unfinished("drinking")
                                          /\ st.drinking_initial_thirst # None)
            => st'.thirst = Remaining(Val(st.drinking_initial_thirst))]_vars

\* C29: after update_state_by_time during an unfinished sleep with progress
\* p, fatigue is 80 * (1 - p) and boredom is 50 * (1 - 0.5 * p), both floored
\* at 0, whatever they were before the call.
C29_SleepingProgress ==
    [][(IsCall("update_state_by_time") /\ Unfinished("sleeping"))
          => LET be == elapsed_minutes(now - Val(st.behavior_start_time), time_scale)
                 dur == Val(st.behavior_duration)
             IN  /\ st'.fatigue = Remaining(Pt(80))
                 /\ st'.boredom = Max(0, (Pt(50) * (2 * dur - be)) \div (2 * dur))]_vars

\* half of a two-minute sleep has passed for the dog loaded with fatigue 90
\* and boredom 60: the refresh leaves fatigue 40 and boredom 37.5
C29_Witness ==
    /\ last.op = "update_state_by_time" /\ ~last.completed
    /\ st.current_behavior = Some("sleeping") /\ st.behavior_start_time = Some(0)
    /\ time_scale = 30 /\ now = 2 /\ st.last_update_time = 2
    /\ st.hunger = Pt(80) /\ st.thirst = Pt(75)
    /\ st.fatigue = Pt(40) /\ 2 * st.boredom = Pt(75)

----------------------------------------------------------------------------
(* Properties of the persisted snapshot *)

\* C30: when an operation the program calls on the state manager returns
\* having changed a persisted field (modify_state, start_behavior,
\* interrupt_behavior, and get_state_description with the decay, the progress
\* and any completion of its update_state_by_time), the row of the table holds
\* the values in memory of all persisted fields.
C30_PersistedAfterMutation ==
    [][(calls' # calls /\ to_dict(st') # to_dict(st))
          => db'.state_data = Some(to_dict(st'))]_vars

\* get_state_description has completed a behaviour and decayed the
\* attributes two seconds after the start, and the row holds what is in memory
C30_Witness ==
    /\ last.op = "get_state_description" /\ last.completed
    /\ nCompleted = 1 /\ now = 2 /\ st.last_update_time = 2
    /\ st.current_behavior = None
    /\ db = save_state(st, now)

(***************************************************************************)
(* SpecAgentDurations: the long-term tools called with a duration_seconds  *)
(* argument chosen by the agent.  The tools take an int and divide it by   *)
(* 60 without testing it.                                                  *)
(***************************************************************************)

\* values of duration_seconds the agent passes: none, a short one, drink_water's default
AgentDurationSeconds == {0, 30, 480}

CallLongTermToolWith ==
    \E tool \in LongTermTools, duration_seconds \in AgentDurationSeconds :
        ToolCall(tool.name, ExecuteBehavior(tool, duration_seconds),
                 ~is_busy(st, now, time_scale), FALSE)

NextAgentDurations ==
    \/ TickLongTerm
    \/ CallLongTermToolWith
    \/ RefreshLongTerm

SpecAgentDurations == InitDirect /\ [][NextAgentDurations]_vars

\* C31: whenever a behaviour is set, its behavior_duration is strictly
\* positive, whatever duration_seconds the agent passed to sleep, eat_food or
\* drink_water.  Violated by a call with duration_seconds = 0.
C31_DurationPositive ==
    st.current_behavior # None => Val(st.behavior_duration) > 0

\* C32: in every reachable state behavior_start_time, behavior_duration and
\* behavior_description are all set if and only if current_behavior is set.
C32_SlotFieldsTogether ==
    /\ st.behavior_start_time # None <=> st.current_behavior # None
    /\ st.behavior_duration # None <=> st.current_behavior # None
    /\ st.behavior_description # None <=> st.current_behavior # None

\* a behaviour was started (all four fields set), then interrupted (all four cleared)
C32_Witness ==
    /\ last.op = "interrupt_behavior" /\ last.ok
    /\ nStarted = 1 /\ nInterrupted = 1
    /\ st.current_behavior = None
    /\ st.behavior_start_time = None
    /\ st.behavior_duration = None
    /\ st.behavior_description = None

----------------------------------------------------------------------------
(* SpecUpdateRace: the update_state_by_time of get_state_description run   *)
(* by the interactive cycle on the UI thread and by the autonomous cycle   *)
(* on the background thread.  current_time is read at line 102 and stored  *)
(* at line 122; nothing keeps the other thread from running in between.    *)

Threads == {"ui", "bg"}

\* lines 102-109: current_time, elapsed_minutes, the behaviour progress
UpdateBegin(th) ==
    /\ locals[th].pc = "idle"
    /\ calls < MaxCalls
    /\ LET p == IF st.current_behavior # None
                THEN update_behavior_progress(st, db, now, time_scale)
                ELSE [st |-> st, db |-> db, completed |-> FALSE]
       IN  /\ st' = p.st /\ db' = p.db
           /\ locals' = [locals EXCEPT
                  ![th] = [Idle EXCEPT
                            !.pc = "decay",
                            !.t = now,
                            !.em = elapsed_minutes(now - st.last_update_time, time_scale)]]
    /\ calls' = calls + 1
    /\ RaceFrame

\* lines 111-120: the decay and the unhappiness, with the thread's elapsed_minutes
UpdateDecay(th) ==
    /\ locals[th].pc = "decay"
    /\ LET em == locals[th].em
           s2 == IF st.current_behavior # Some("sleeping")
                 THEN [st EXCEPT !.hunger  = @ + Rate(em, 2, 1),
                                 !.thirst  = @ + Rate(em, 3, 2),
                                 !.fatigue = @ + Rate(em, 1, 1),
                                 !.boredom = @ + Rate(em, 3, 2)]
                 ELSE st
       IN  st' = IF s2.hunger > Pt(70) \/ s2.thirst > Pt(70)
                 THEN [s2 EXCEPT !.happiness = @ - Rate(em, 1, 2)]
                 ELSE s2
    /\ locals' = [locals EXCEPT ![th].pc = "finish"]
    /\ UNCHANGED <<db, calls>>
    /\ RaceFrame

\* lines 122-123, then the save_state() of get_state_description (line 292)
UpdateFinish(th) ==
    /\ locals[th].pc = "finish"
    /\ st' = clamp_values([st EXCEPT !.last_update_time = locals[th].t])
    /\ db' = save_state(st', now)
    /\ locals' = [locals EXCEPT ![th] = Idle]
    /\ UNCHANGED calls
    /\ RaceFrame

\* time passes, also while a thread is inside the call
TickUpdateRace == Advance(1, MaxTime)

NextUpdateRace ==
    \/ TickUpdateRace
    \/ \E th \in Threads : UpdateBegin(th)
    \/ \E th \in Threads : UpdateDecay(th)
    \/ \E th \in Threads : UpdateFinish(th)

SpecUpdateRace == InitDirect /\ [][NextUpdateRace]_vars

\* C33: last_update_time never decreases, whatever the interleaving of the
\* update_state_by_time calls of the two threads.  Violated when the thread
\* that read the clock first stores its reading last.
C33_LastUpdateMonotonic ==
    [][st'.last_update_time >= st.last_update_time]_vars

\* virtual time, in the unit of elapsed_minutes, between last_update_time and
\* now that lies outside the sleep [behavior_start_time, start + duration]
AwakeMinutes ==
    LET start  == Val(st.behavior_start_time)
        before == IF st.last_update_time < start
                  THEN elapsed_minutes(start - st.last_update_time, time_scale) ELSE 0
        E      == elapsed_minutes(now - start, time_scale)
        L      == IF st.last_update_time < start THEN 0
                  ELSE elapsed_minutes(st.last_update_time - start, time_scale)
        D      == Val(st.behavior_duration)
        from   == IF L > D THEN L ELSE D
        after  == IF E > from THEN E - from ELSE 0
    IN  before + after

\* C34: virtual time that passes while the dog sleeps adds nothing to hunger,
\* thirst, fatigue or boredom: an update made with a sleep set adds at most
\* the decay of the time outside the sleep, also when it completes the sleep
\* (fatigue and boredom of a sleep still running are set from its progress).
\* Violated by the completing update, which decays over the whole interval.
C34_NoDecayAsleep ==
    [][(IsCall("update_state_by_time") /\ st.current_behavior = Some("sleeping"))
         => /\ st'.hunger <= Clamp(st.hunger + PerMinute(AwakeMinutes, 2, 1))
            /\ st'.thirst <= Clamp(st.thirst + PerMinute(AwakeMinutes, 3, 2))
            /\ st'.current_behavior = None
                  => /\ st'.fatigue <= Clamp(PerMinute(AwakeMinutes, 1, 1))
                     /\ st'.boredom <= Clamp(st.boredom + PerMinute(AwakeMinutes, 3, 2))]_vars

----------------------------------------------------------------------------
(* SpecFair: the agent with running left true, under the scheduling of the *)
(* event loop: main() starts the background thread, the executor and the   *)
(* orchestrator are resumed after every asyncio.sleep, and the wall clock  *)
(* advances up to the last instant the clock of the model reaches.         *)

FairScheduling ==
    /\ WF_vars(StartAutonomousTask)
    /\ WF_vars(ElapseLong)
    /\ WF_vars(\E e \in Loops : ExecTask(e))
    /\ WF_vars(\E e \in Loops : ExecIdle(e))
    /\ WF_vars(\E e \in Loops : ExecWaitOver(e))

SpecFair == Init /\ [][NextTimer]_vars /\ FairScheduling

\* the clock of the model has reached its last instant
ClockStopped == ~ENABLED ElapseLong

Queued(k) == \E i \in 1..Len(behavior_queue) : behavior_queue[i].id = k

Invoked(k) == \E i \in 1..Len(exec_log) : exec_log[i] = k

\* C35: every task put on the queue eventually has its action invoked: the
\* long-term wait in front of it always ends.  The only behaviours set aside
\* are those whose clock stops while a behaviour is still within its
\* duration, where wall-clock time does not advance.
C35_EveryTaskInvoked ==
    \A k \in 1..MaxTasks :
        Queued(k) ~> (Invoked(k) \/ (ClockStopped /\ is_busy(st, now, time_scale)))

\* two sleeps were queued and both were started: the executor waited for
\* the first one to end and then invoked the second
C35_Witness ==
    /\ exec_log = <<1, 2>>
    /\ nStarted = 2
    /\ behavior_queue = <<>>

Waiting(e) == exec_pc[e] = "wait"

Interrupted == nInterrupted' = nInterrupted + 1

\* C36: an interrupt that succeeds while the executor waits on a long-term
\* task gives no bonus and sets no just-completed flag, and leaves the wait
\* condition false; the executor then leaves the wait at its next poll,
\* marks the task done and is ready for the next queued task; and with the
\* slot empty nothing is completed until a new behaviour is started.
C36_InterruptEndsWait ==
    /\ [][(Interrupted /\ \E e \in Loops : Waiting(e))
            => /\ ~WaitContinues(st', now', time_scale', running')
               /\ st'.current_behavior = None
               /\ st'.happiness = st.happiness
               /\ st'.behavior_just_completed = st.behavior_just_completed
               /\ nCompleted' = nCompleted]_vars
    /\ [][\A e \in Loops :
            (Waiting(e) /\ st.current_behavior = None /\ running' /\ exec_pc'[e] # exec_pc[e])
              => /\ exec_pc'[e] = "run"
                 /\ TaskFinished
                 /\ ~is_executing_behavior'
                 /\ behavior_queue' = behavior_queue]_vars
    /\ [][st.current_behavior = None
            => /\ nCompleted' = nCompleted
               /\ st'.behavior_just_completed = Some(TRUE)
                    => st.behavior_just_completed = Some(TRUE)]_vars

\* two sleeps were queued; the first was interrupted while the executor
\* waited for it, before any time had passed, and the executor went on to
\* the second, which was started
C36_Witness ==
    /\ now = 0
    /\ exec_log = <<1, 2>>
    /\ nStarted = 2
    /\ nInterrupted >= 1
    /\ nCompleted = 0

InAutonomousCycle(e) == orch_pc[e] = "cycle"

InInteractiveCycle == ui_pc = "cycle"

\* C37: an autonomous and an interactive cycle never run at the same time:
\* while one cycle is between its start and its end, no step of the other
\* changes self.mode (lines 219 and 265, which follow the reset of
\* current_cycle_behaviors at lines 216 and 262).  Violated by a message
\* the owner sends while the autonomous cycle awaits the agent.
C37_CyclesExclusive ==
    [][/\ (\E e \in Loops : InAutonomousCycle(e) /\ InAutonomousCycle(e)') => mode' = mode
       /\ (InInteractiveCycle /\ InInteractiveCycle') => mode' = mode]_vars

\* an autonomous cycle is entered (lines 369 and 383)
CycleStarts == \E e \in Loops : ~InAutonomousCycle(e) /\ InAutonomousCycle(e)'

\* C38: the orchestrator starts an autonomous cycle only when the execution
\* queue is empty and the executor is not executing a task.  Violated: the
\* loop tests is_busy(), the completion flag and the timer, never the queue
\* or is_executing_behavior.
C38_CycleOnlyWhenIdle ==
    [][CycleStarts => behavior_queue = <<>> /\ ~is_executing_behavior]_vars

----------------------------------------------------------------------------
(* SpecProgressRace: "if is_busy(): progress = get_behavior_progress()" of *)
(* the orchestrator loop (background thread) and of get_state_description  *)
(* (either thread), with start_behavior, interrupt_behavior and the        *)
(* completing update of the other thread running between the two calls.    *)

\* get_behavior_progress(): None without a behaviour, else the dictionary
get_behavior_progress(s, t, ts) ==
    IF s.current_behavior = None THEN None
    ELSE LET em == elapsed_minutes(t - Val(s.behavior_start_time), ts)
             total == Val(s.behavior_duration)
         IN  Some([behavior |-> Val(s.current_behavior),
                   description |-> Val(s.behavior_description),
                   elapsed_minutes |-> em,
                   remaining_minutes |-> Max(0, total - em),
                   total_minutes |-> total,
                   progress_percent |-> Min(100, (em * 100) \div total)])

\* a thread outside the two-call sequence
Outside(th) == locals[th].pc = "idle"

\* if self.is_busy():
TestBusy(th) ==
    /\ Outside(th)
    /\ is_busy(st, now, time_scale)
    /\ locals' = [locals EXCEPT ![th].pc = "progress"]
    /\ UNCHANGED <<st, db, calls>>
    /\ RaceFrame

\* progress = self.get_behavior_progress(); the result is kept in the kw cell
GetProgress(th) ==
    /\ locals[th].pc = "progress"
    /\ locals' = [locals EXCEPT ![th].pc = "use",
                                ![th].kw = get_behavior_progress(st, now, time_scale)]
    /\ UNCHANGED <<st, db, calls>>
    /\ RaceFrame

\* progress['description'], progress['progress_percent']
UseProgress(th) ==
    /\ locals[th].pc = "use"
    /\ locals[th].kw # None
    /\ locals' = [locals EXCEPT ![th] = Idle]
    /\ UNCHANGED <<st, db, calls>>
    /\ RaceFrame

\* the subscript of None raises TypeError
UseProgressRaises(th) ==
    /\ locals[th].pc = "use"
    /\ locals[th].kw = None
    /\ locals' = [locals EXCEPT ![th].pc = "raised"]
    /\ UNCHANGED <<st, db, calls>>
    /\ RaceFrame

ThreadStartsBehavior(th) ==
    /\ Outside(th)
    /\ CallStartBehavior

ThreadInterrupts(th) ==
    /\ Outside(th)
    /\ CallInterruptBehavior

\* update_state_by_time() and save_state() at the head of get_state_description
ThreadUpdates(th) ==
    /\ Outside(th)
    /\ CallGetStateDescription

TickProgressRace == Advance(1, MaxTime)

NextProgressRace ==
    \/ TickProgressRace
    \/ \E th \in Threads : TestBusy(th)
    \/ \E th \in Threads : GetProgress(th)
    \/ \E th \in Threads : UseProgress(th)
    \/ \E th \in Threads : UseProgressRaises(th)
    \/ \E th \in Threads : ThreadStartsBehavior(th)
    \/ \E th \in Threads : ThreadInterrupts(th)
    \/ \E th \in Threads : ThreadUpdates(th)

SpecProgressRace == InitDirect /\ [][NextProgressRace]_vars

\* C39: a result of get_behavior_progress() used after is_busy() returned
\* true is not None, whatever the other thread does between the two calls.
\* Violated when the other thread interrupts or completes the behaviour
\* after the test.
C39_ProgressNotNone ==
    \A th \in Threads : locals[th].pc = "use" => locals[th].kw # None

\* C40: once is_busy() is false it does not become true again until a
\* start_behavior succeeds, also when set_time_scale changes time_scale
\* while the behaviour is still set.  Violated by a lower time_scale, which
\* shortens the virtual time already elapsed.
C40_BusyOnlyByStart ==
    [][(~is_busy(st, now, time_scale) /\ is_busy(st', now', time_scale'))
         => nStarted' = nStarted + 1]_vars

====
